---- MODULE Spec2Model ----
(***************************************************************************)
(* znn v4 trivial_network: graph construction (add_nodes, add_edges, init  *)
(* with its stride and fov passes, create_edges) and the single-threaded   *)
(* forward / backward passes with the per-channel accumulation protocol.   *)
(*                                                                         *)
(* Numbers of type double are fixed-point integers in tenths (10 = 1.0).   *)
(* A cube is a record [sz, v]: its shape and the value shared by all its   *)
(* voxels (constant cubes); cubes live in a heap and are referred to by    *)
(* index, 0 being the null cube_p.                                         *)
(***************************************************************************)
EXTENDS Integers, Sequences, FiniteSets, TLC

VARIABLES
    ns,             \* constructor argument: node option bags still to add
    es,             \* constructor argument: edge option bags still to add
    outsz,          \* constructor argument: output feature-map size
    pc,             \* "add" | "create" | "ready" | "forward" | "backward" | "failed"
    err,            \* why pc = "failed" ("" otherwise)
    nodes_,         \* network::nodes_  : name -> nnodes
    edges_,         \* network::edges_  : name -> nedges
    input_nodes_,   \* network::input_nodes_  (set of names)
    output_nodes_,  \* network::output_nodes_ (set of names)
    grp,            \* the nodes objects (input_nodes, summing_nodes, transfer_nodes)
    egrp,           \* the edges objects (dummy_edges, max_pooling_edges, filter_edges)
    heap,           \* cube storage: index -> cube, or Free
    stack,          \* call stack of the running pass
    arg,            \* argument map of the running forward / backward
    ret,            \* map returned by the last forward / backward
    calls,          \* the forward ("F") and backward ("B") calls made so far
    log             \* history of the running pass, per node group and channel

vars == << ns, es, outsz, pc, err, nodes_, edges_, input_nodes_, output_nodes_,
           grp, egrp, heap, stack, arg, ret, calls, log >>

ctor_args == << ns, es, outsz >>
graph_vars == << nodes_, edges_, input_nodes_, output_nodes_ >>
pass_vars == << heap, stack, arg, ret, calls, log >>

-----------------------------------------------------------------------------
(* vec3i *)

one == << 1, 1, 1 >>
zero == << 0, 0, 0 >>

VAdd(a, b) == << a[1] + b[1], a[2] + b[2], a[3] + b[3] >>
VSub(a, b) == << a[1] - b[1], a[2] - b[2], a[3] - b[3] >>
VMul(a, b) == << a[1] * b[1], a[2] * b[2], a[3] * b[3] >>
VPos(a) == a[1] > 0 /\ a[2] > 0 /\ a[3] > 0
Vol(a) == a[1] * a[2] * a[3]

(* std::map iterates its keys in lexicographic order *)
Keys == << "a", "b", "c", "d", "e1", "e2", "e3", "e4", "e5" >>
MapOrder(S) == SelectSeq(Keys, LAMBDA k : k \in S)

EmptyMap == [k \in {} |-> 0]
Null == 0

(* options::contains, optional_as *)
contains(op, k) == k \in DOMAIN op
optional_as(op, k, dflt) == IF k \in DOMAIN op THEN op[k] ELSE dflt

(* fixed-point product of two doubles held in tenths *)
FixMul(a, b) == (a * b) \div 10

DefaultEta == 1
DefaultMomentum == 0
DefaultWeightDecay == 0

-----------------------------------------------------------------------------
(* nnodes and nedges as default-constructed *)

new_nnodes == [ fov |-> zero, stride |-> zero, fsize |-> zero,
                in |-> << >>, out |-> << >> ]

new_nedges(op) == [ width |-> one, stride |-> one,
                    in_stride |-> zero, in_fsize |-> zero,
                    in |-> op.input, out |-> op.output, opts |-> op ]

(* bias(eta, mom, wd) with value b and momentum state v *)
new_bias(b, eta, mom, wd) ==
    [ b |-> b, v |-> 0, eta |-> eta, momentum |-> mom, weight_decay |-> wd ]

(* filter(sz, eta, mom, wd) with constant weight w *)
new_filter(sz, w, eta, mom, wd) ==
    [ W |-> [sz |-> sz, v |-> w], V |-> 0,
      eta |-> eta, momentum |-> mom, weight_decay |-> wd ]

Chans(s) == 0 .. (s - 1)

(* input_nodes(sz, op), summing_nodes(sz, op), transfer_nodes(op) *)
new_nodes(op) ==
    [ type      |-> op.type,
      size_     |-> op.size,
      inputs_   |-> [i \in Chans(op.size) |-> << >>],
      outputs_  |-> [i \in Chans(op.size) |-> << >>],
      received_ |-> [i \in Chans(op.size) |-> 0],
      fs_       |-> [i \in Chans(op.size) |-> Null],
      gs_       |-> [i \in Chans(op.size) |-> Null],
      func_     |-> optional_as(op, "function", "none"),
      biases_   |-> IF op.type = "transfer"
                    THEN [i \in Chans(op.size) |->
                            new_bias(IF contains(op, "biases") THEN op.biases[i + 1] ELSE 0,
                                     optional_as(op, "eta", DefaultEta),
                                     optional_as(op, "momentum", DefaultMomentum),
                                     optional_as(op, "weight_decay", DefaultWeightDecay))]
                    ELSE EmptyMap,
      options_  |-> op ]

TransferFunctions == { "linear", "rectify_linear" }

-----------------------------------------------------------------------------
(* network::add_nodes: the result of adding one option bag *)

(* a type dispatch that builds a group whatever the type string is *)
any_type(t) == TRUE

(* the type strings add_nodes dispatches on *)
known_nodes_type(t) == t \in { "input", "sum", "transfer" }

(* the type strings add_edges and create_edges dispatch on *)
known_edges_type(t) == t \in { "max_filter", "conv", "dummy" }

add_nodes_result(op) ==
    IF ~({"name", "type", "size"} \subseteq DOMAIN op) THEN "missing option"
    ELSE IF ~(op.size > 0) THEN "assert sz>0"
    ELSE IF op.name \in DOMAIN nodes_ THEN "assert duplicate node name"
    ELSE IF op.type = "transfer" /\ ~contains(op, "function") THEN "missing option"
    ELSE IF op.type = "transfer" /\ op.function \notin TransferFunctions
         THEN "unknown transfer function"
    ELSE IF ~known_nodes_type(op.type) THEN "unknown nodes type"
    ELSE "ok"

Fail(why) ==
    /\ pc' = "failed"
    /\ err' = why

add_nodes ==
    /\ pc = "add"
    /\ ns # << >>
    /\ LET op == Head(ns)
           r == add_nodes_result(op)
       IN  /\ ns' = Tail(ns)
           /\ IF r = "ok"
              THEN /\ nodes_' = (op.name :> new_nnodes) @@ nodes_
                   /\ grp' = (op.name :> new_nodes(op)) @@ grp
                   /\ input_nodes_' = IF op.type = "input"
                                      THEN input_nodes_ \cup {op.name}
                                      ELSE input_nodes_
                   /\ UNCHANGED << pc, err >>
              ELSE /\ Fail(r)
                   /\ UNCHANGED << nodes_, grp, input_nodes_ >>
    /\ UNCHANGED << es, outsz, edges_, output_nodes_, egrp >>
    /\ UNCHANGED pass_vars

-----------------------------------------------------------------------------
(* network::add_edges *)

add_edges_result(op) ==
    IF ~({"name", "type", "input", "output"} \subseteq DOMAIN op) THEN "missing option"
    ELSE IF op.name \in DOMAIN edges_ THEN "assert duplicate edge name"
    ELSE IF ~(op.input \in DOMAIN nodes_ /\ op.output \in DOMAIN nodes_)
         THEN "assert unknown node name"
    ELSE IF op.type = "max_filter" /\ ~({"size", "stride"} \subseteq DOMAIN op)
         THEN "missing option"
    ELSE IF op.type = "conv" /\ ~contains(op, "size") THEN "missing option"
    ELSE IF ~known_edges_type(op.type) THEN "unknown edges type"
    ELSE "ok"

(* width and stride as add_edges reads them from the options *)
nedges_of(op) ==
    IF op.type = "max_filter"
    THEN [new_nedges(op) EXCEPT !.width = op.size, !.stride = op.stride]
    ELSE IF op.type = "conv"
    THEN [new_nedges(op) EXCEPT !.width = op.size,
                                !.stride = optional_as(op, "stride", one)]
    ELSE new_nedges(op)

add_edges ==
    /\ pc = "add"
    /\ ns = << >>
    /\ es # << >>
    /\ LET op == Head(es)
           r == add_edges_result(op)
       IN  /\ es' = Tail(es)
           /\ IF r = "ok"
              THEN /\ edges_' = (op.name :> nedges_of(op)) @@ edges_
                   /\ nodes_' = [nodes_ EXCEPT
                                   ![op.input] =
                                       [@ EXCEPT !.out = Append(@, op.name)],
                                   ![op.output] =
                                       [@ EXCEPT !.in = Append(@, op.name)]]
                   /\ UNCHANGED << pc, err >>
              ELSE /\ Fail(r)
                   /\ UNCHANGED << nodes_, edges_ >>
    /\ UNCHANGED << ns, outsz, input_nodes_, output_nodes_, grp, egrp >>
    /\ UNCHANGED pass_vars

-----------------------------------------------------------------------------
(* network::stride_pass and network::fov_pass over g = [nodes, edges, ok];  *)
(* ok turns FALSE when a ZI_ASSERT on a revisited node fails                *)

(* the stride stride_pass hands to the destination of edge group e *)
downstream_stride(e, stride) == VMul(stride, e.stride)

(* a revisit that keeps the first stride whatever the second one is *)
any_stride(old, new) == TRUE

(* ZI_ASSERT(n->stride==stride) on a node group visited before *)
same_stride(old, new) == old = new

RECURSIVE stride_pass(_, _, _), stride_pass_out(_, _, _, _)

stride_pass(g, n, stride) ==
    IF ~g.ok THEN g
    ELSE IF g.nodes[n].stride # zero
    THEN [g EXCEPT !.ok = same_stride(g.nodes[n].stride, stride)]
    ELSE stride_pass_out([g EXCEPT !.nodes[n].stride = stride], n, stride, 1)

stride_pass_out(g, n, stride, k) ==
    IF ~g.ok \/ k > Len(g.nodes[n].out) THEN g
    ELSE LET e == g.nodes[n].out[k]
             g1 == [g EXCEPT !.edges[e].in_stride = stride]
         IN  stride_pass_out(
                 stride_pass(g1, g1.edges[e].out, downstream_stride(g1.edges[e], stride)),
                 n, stride, k + 1)

(* the loop "for e in n->out: e->in_fsize = fsize" *)
set_in_fsize(edges, outs, fsize) ==
    [e \in DOMAIN edges |->
        IF \E k \in 1 .. Len(outs) : outs[k] = e
        THEN [edges[e] EXCEPT !.in_fsize = fsize]
        ELSE edges[e]]

(* new_fov of fov_pass for in-edge e *)
upstream_fov(e, fov) == VAdd(VMul(VSub(fov, one), e.stride), e.width)

(* a new_fsize that dilates by the edge's own stride *)
upstream_fsize_by_edge_stride(e, fsize) ==
    VAdd(VMul(VSub(e.width, one), e.stride), fsize)

(* new_fsize of fov_pass for in-edge e *)
upstream_fsize(e, fsize) == VAdd(VMul(VSub(e.width, one), e.in_stride), fsize)

RECURSIVE fov_pass(_, _, _, _), fov_pass_in(_, _, _, _, _)

fov_pass(g, n, fov, fsize) ==
    IF ~g.ok THEN g
    ELSE IF g.nodes[n].fov # zero
    THEN [g EXCEPT !.ok = (g.nodes[n].fsize = fsize /\ g.nodes[n].fov = fov)]
    ELSE fov_pass_in(
             [g EXCEPT !.edges = set_in_fsize(g.edges, g.nodes[n].out, fsize),
                       !.nodes[n].fov = fov,
                       !.nodes[n].fsize = fsize],
             n, fov, fsize, 1)

fov_pass_in(g, n, fov, fsize, k) ==
    IF ~g.ok \/ k > Len(g.nodes[n].in) THEN g
    ELSE LET e == g.edges[g.nodes[n].in[k]]
             new_fov == upstream_fov(e, fov)
             new_fsize == upstream_fsize(e, fsize)
         IN  fov_pass_in(fov_pass(g, e.in, new_fov, new_fsize),
                         n, fov, fsize, k + 1)

RECURSIVE stride_pass_all(_, _), fov_pass_all(_, _, _)

(* for ( auto& o: input_nodes_ ) stride_pass(o.second, vec3i::one) *)
stride_pass_all(g, names) ==
    IF names = << >> THEN g
    ELSE stride_pass_all(stride_pass(g, Head(names), one), Tail(names))

(* for ( auto& o: output_nodes_ ) fov_pass(o.second, vec3i::one, outsz) *)
fov_pass_all(g, names, osz) ==
    IF names = << >> THEN g
    ELSE fov_pass_all(fov_pass(g, Head(names), one, osz), Tail(names), osz)

(* output_nodes_ as init collects it *)
find_outputs(nodes) == { n \in DOMAIN nodes : Len(nodes[n].out) = 0 }

(* network::init *)
init_result(nodes, edges, inputs, osz) ==
    LET g0 == [nodes |-> nodes, edges |-> edges, ok |-> TRUE]
        g1 == stride_pass_all(g0, MapOrder(inputs))
    IN  fov_pass_all(g1, MapOrder(find_outputs(nodes)), osz)

init ==
    /\ pc = "add"
    /\ ns = << >>
    /\ es = << >>
    /\ LET g == init_result(nodes_, edges_, input_nodes_, outsz)
       IN  /\ output_nodes_' = find_outputs(nodes_)
           /\ nodes_' = g.nodes
           /\ edges_' = g.edges
           /\ IF g.ok
              THEN pc' = "create" /\ err' = err
              ELSE Fail("assert geometry mismatch")
    /\ UNCHANGED << ns, es, outsz, input_nodes_, grp, egrp >>
    /\ UNCHANGED pass_vars

-----------------------------------------------------------------------------
(* network::create_edges: the edge groups are built in map order; each      *)
(* edge_of constructor attaches itself to its source and destination        *)

(* edge_of<E>(in, inn, out, outn, ...) with the kernel's retained state *)
new_edge(inn, outn) ==
    [ in_num |-> inn, out_num |-> outn,
      last_input |-> Null,          \* filter_edge::last_input
      indices |-> FALSE,            \* max_pooling_edge::indices is set
      insize |-> zero ]             \* max_pooling_edge::insize

(* nodes::attach_out_edge(i, e) for every edge of group e leaving channel i *)
attach_out_edges(nd, e, edges) ==
    [nd EXCEPT !.outputs_ =
        [i \in DOMAIN nd.outputs_ |->
            nd.outputs_[i] \o
            SelectSeq([x \in 1 .. Cardinality(DOMAIN edges) |-> [g |-> e, k |-> x - 1]],
                      LAMBDA id : edges[id.k].in_num = i)]]

(* nodes::attach_in_edge(j, e) for every edge of group e entering channel j *)
attach_in_edges(nd, e, edges) ==
    [nd EXCEPT !.inputs_ =
        [j \in DOMAIN nd.inputs_ |->
            nd.inputs_[j] \o
            SelectSeq([x \in 1 .. Cardinality(DOMAIN edges) |-> [g |-> e, k |-> x - 1]],
                      LAMBDA id : edges[id.k].out_num = j)]]

(* a filter_edges group whose edges all leave the first source channel *)
cartesian_edges_from_first(n, m) ==
    [k \in 0 .. (n * m - 1) |-> new_edge(0, k % m)]

(* a filter_edges group numbered column by column: k = j*n + i *)
cartesian_edges_transposed(n, m) ==
    [k \in 0 .. (n * m - 1) |-> new_edge(k % n, k \div n)]

(* the edges of a filter_edges group: k = i*m + j connects i to j *)
cartesian_edges(n, m) ==
    [k \in 0 .. (n * m - 1) |-> new_edge(k \div m, k % m)]

(* the edges of a dummy_edges or max_pooling_edges group: i connects to i *)
diagonal_edges(n) ==
    [k \in 0 .. (n - 1) |-> new_edge(k, k)]

(* why the constructor of the edges object of group e fails, or "ok" *)
edges_ctor_result(ne, n, m, out_type, garbage) ==
    LET op == ne.opts IN
    IF ~known_edges_type(op.type) THEN "unknown edges type"
    ELSE IF op.type \in {"max_filter", "dummy"} /\ n # m THEN "assert size mismatch"
    ELSE IF op.type = "conv" /\ ~(n > 0 /\ m > 0) THEN "assert empty group"
    ELSE IF out_type = "input" THEN "unimplemented attach_in_edge"
    ELSE IF op.type = "conv" /\ contains(op, "filters") /\ Len(op.filters) # n * m
         THEN "filters length"
    ELSE "ok"

(* a kernel dilated by the edge group's own stride *)
kernel_stride_own(ne) == ne.stride

(* the stride create_edges hands to max_pooling_edges and filter_edges,    *)
(* which every kernel of the group keeps as its filter_stride              *)
kernel_stride(ne) == ne.in_stride

(* the edges object: dummy_edges, max_pooling_edges or filter_edges.       *)
(* Without a "filters" option filter_edges reads its initial weights from  *)
(* a buffer it has already deleted: any value may be found there.          *)
new_edges(ne, n, m, garbage) ==
    LET op == ne.opts IN
    [ type     |-> op.type,
      options_ |-> op,
      stride   |-> kernel_stride(ne),
      size_    |-> IF op.type = "dummy" THEN one ELSE op.size,
      edges_   |-> IF op.type = "conv" THEN cartesian_edges(n, m)
                   ELSE diagonal_edges(n),
      filters_ |-> IF op.type = "conv"
                   THEN [k \in 0 .. (n * m - 1) |->
                           new_filter(op.size,
                                      IF contains(op, "filters")
                                      THEN op.filters[k + 1] ELSE garbage,
                                      optional_as(op, "eta", DefaultEta),
                                      optional_as(op, "momentum", DefaultMomentum),
                                      optional_as(op, "weight_decay", DefaultWeightDecay))]
                   ELSE EmptyMap ]

RECURSIVE create_edges_from(_, _, _)

(* c = [grp, egrp, err]; names = the edge groups still to create *)
create_edges_from(c, names, garbage) ==
    IF c.err # "ok" \/ names = << >> THEN c
    ELSE LET e == Head(names)
             ne == edges_[e]
             n == c.grp[ne.in].size_
             m == c.grp[ne.out].size_
             r == edges_ctor_result(ne, n, m, c.grp[ne.out].type, garbage)
             eo == new_edges(ne, n, m, garbage)
             g1 == [c.grp EXCEPT ![ne.in] = attach_out_edges(@, e, eo.edges_)]
             g2 == [g1 EXCEPT ![ne.out] = attach_in_edges(@, e, eo.edges_)]
         IN  IF r # "ok" THEN [c EXCEPT !.err = r]
             ELSE create_edges_from(
                      [c EXCEPT !.grp = g2, !.egrp = (e :> eo) @@ c.egrp],
                      Tail(names), garbage)

GarbageVals == { 0, 10 }

create_edges ==
    /\ pc = "create"
    /\ \E garbage \in GarbageVals :
         LET c == create_edges_from([grp |-> grp, egrp |-> egrp, err |-> "ok"],
                                    MapOrder(DOMAIN edges_), garbage)
         IN  IF c.err = "ok"
             THEN /\ grp' = c.grp
                  /\ egrp' = c.egrp
                  /\ edges_' = [e \in DOMAIN edges_ |->
                                   [edges_[e] EXCEPT !.opts = EmptyMap]]
                  /\ pc' = "ready"
                  /\ err' = err
             ELSE /\ Fail(c.err)
                  /\ UNCHANGED << grp, egrp, edges_ >>
    /\ UNCHANGED << ns, es, outsz, nodes_, input_nodes_, output_nodes_ >>
    /\ UNCHANGED pass_vars

-----------------------------------------------------------------------------
(* Cubes and the kernels applied to them.  get_cube / get_copy allocate;   *)
(* a cube_p is released when nothing refers to it any more.                *)

Cube(sz, v) == [sz |-> sz, v |-> v]

(* the lowest free index of heap h *)
fresh(h) ==
    CHOOSE i \in 1 .. (Cardinality(DOMAIN h) + 1) :
        i \notin DOMAIN h /\ \A j \in 1 .. (i - 1) : j \in DOMAIN h

(* sum(c): the sum over the voxels of c *)
sum(c) == c.v * Vol(c.sz)

(* convolve_sparse(f, W, stride) *)
convolve_sparse(f, W, stride) ==
    Cube(VSub(f.sz, VMul(VSub(W.sz, one), stride)), FixMul(f.v, W.v) * Vol(W.sz))

(* convolve_sparse_flipped(f, g, stride): the weight gradient *)
convolve_sparse_flipped(f, g, stride, wsz) ==
    Cube(wsz, FixMul(f.v, g.v) * Vol(g.sz))

(* convolve_sparse_inverse(g, W, stride): the gradient sent upstream *)
convolve_sparse_inverse(g, W, stride) ==
    Cube(VAdd(g.sz, VMul(VSub(W.sz, one), stride)), FixMul(g.v, W.v) * Vol(W.sz))

(* pooling_filter(f, >, size, stride).first *)
pooling_filter(f, size, stride) ==
    Cube(VSub(f.sz, VMul(VSub(size, one), stride)), f.v)

(* pooling_backprop(insize, g, indices) *)
pooling_backprop(insize, g) == Cube(insize, g.v)

(* transfer_function::apply(f, b) *)
apply(fn, f, b) ==
    IF fn = "rectify_linear"
    THEN Cube(f.sz, IF f.v + b > 0 THEN f.v + b ELSE 0)
    ELSE Cube(f.sz, f.v + b)

(* transfer_function::apply_grad(g, f): g times the derivative at output f *)
apply_grad(fn, g, f) ==
    IF fn = "rectify_linear"
    THEN Cube(g.sz, IF f.v > 0 THEN g.v ELSE 0)
    ELSE g

(* bias::update(dEdB) *)
bias_update(bs, dEdB) ==
    LET v1 == FixMul(bs.momentum, bs.v)
              - FixMul(bs.eta, dEdB + FixMul(bs.weight_decay, bs.b))
    IN  [bs EXCEPT !.v = v1, !.b = bs.b + v1]

(* filter::update(dEdW) *)
filter_update(flt, dEdW) ==
    LET v1 == FixMul(flt.momentum, flt.V)
              - FixMul(flt.eta, dEdW.v + FixMul(flt.weight_decay, flt.W.v))
    IN  [flt EXCEPT !.V = v1, !.W.v = flt.W.v + v1]

-----------------------------------------------------------------------------
(* The running pass works on m = [grp, egrp, heap, stack, log, err].       *)

Machine == [ grp |-> grp, egrp |-> egrp, heap |-> heap, stack |-> stack,
             log |-> log, err |-> "ok" ]

Push(st, fr) == << fr >> \o st
Pop(st) == Tail(st)
Top(st) == Head(st)

(* the dispatch loop of channel n of node group nd: k is the next edge *)
dispatch_frame(dir, nd, n, f) ==
    [fn |-> "dispatch", dir |-> dir, node |-> nd, n |-> n, k |-> 1, f |-> f]

(* the history of a pass: per channel the cubes that arrived and, for each *)
(* time the channel started dispatching, the cube it dispatched and the    *)
(* number of cubes that had arrived by then; per bias and filter the       *)
(* number of update calls; steps counts the steps the pass has taken;      *)
(* hyper is the argument of the hyperparameter setter last called          *)
new_log ==
    [ steps   |-> 0,
      hyper   |-> 0,
      arrived |-> [nd \in DOMAIN grp |-> [i \in Chans(grp[nd].size_) |-> << >>]],
      sent    |-> [nd \in DOMAIN grp |-> [i \in Chans(grp[nd].size_) |-> << >>]],
      bias_updates   |-> [nd \in DOMAIN grp |-> [i \in Chans(grp[nd].size_) |-> 0]],
      filter_updates |-> [e \in DOMAIN egrp |->
                            [k \in DOMAIN egrp[e].filters_ |-> 0]] ]

(* an edge that keeps the input of the first forward until backward *)
keep_first_input(e, f) ==
    IF e.last_input = Null THEN [e EXCEPT !.last_input = f] ELSE e

(* filter_edge::forward: last_input = f *)
keep_last_input(e, f) == [e EXCEPT !.last_input = f]

(* every edge of a group bound to the group's first filter *)
filter_of_first(id) == 0

(* the filter edge id.k of a filter_edges group is bound to: *filters_[k] *)
filter_of(id) == id.k

(* a dummy edge that hands its input cube on instead of a copy *)
result_cell_shared(h, eg, f) == IF eg.type = "dummy" THEN f ELSE fresh(h)

(* where the kernel's result goes: convolve_sparse, pooling_filter and     *)
(* get_copy each return a newly allocated cube                             *)
result_cell(h, eg, f) == fresh(h)

(* E::forward of edge id on the cube at f: m with the result cube at .out *)
kernel_forward(m, id, f) ==
    LET eg == m.egrp[id.g]
        in_cube == m.heap[f]
        r == IF eg.type = "conv"
             THEN convolve_sparse(in_cube, eg.filters_[filter_of(id)].W, eg.stride)
             ELSE IF eg.type = "max_filter"
             THEN pooling_filter(in_cube, eg.size_, eg.stride)
             ELSE in_cube
        out == result_cell(m.heap, eg, f)
        e1 == IF eg.type = "conv"
              THEN keep_last_input(eg.edges_[id.k], f)
              ELSE IF eg.type = "max_filter"
              THEN [eg.edges_[id.k] EXCEPT !.indices = TRUE, !.insize = in_cube.sz]
              ELSE eg.edges_[id.k]
    IN  IF ~VPos(r.sz)
        THEN [m EXCEPT !.err = "shape mismatch"] @@ [out |-> Null]
        ELSE [m EXCEPT !.heap = (out :> r) @@ m.heap,
                       !.egrp[id.g].edges_[id.k] = e1] @@ [out |-> out]

(* an accumulation that assigns instead of adding *)
accumulate_overwrites(a, b) == b

(* an accumulation that depends on the order: later arrivals weigh double *)
accumulate_weighted(a, b) == Cube(a.sz, a.v + 2 * b.v)

(* "*fs_[n] += *f" and "*gs_[n] += *g": the voxel-wise sum of a and b *)
accumulate(a, b) == Cube(a.sz, a.v + b.v)

(* a channel that does not wait for its other in-edges *)
forward_complete_at_first(cnt, g, n) == cnt = 1

(* the test "++received_[n] == inputs_[n].size()" *)
forward_complete(cnt, g, n) == cnt = Len(g.inputs_[n])

(* summing_nodes::forward / transfer_nodes::forward up to the dispatch     *)
(* loop: channel n of group nd receives the cube at f                      *)
node_forward(m, nd, n, f) ==
    LET g == m.grp[nd]
        first == g.received_[n] = 0
        buf == IF first THEN f ELSE g.fs_[n]
        acc == IF first THEN m.heap[f]
               ELSE accumulate(m.heap[buf], m.heap[f])
        cnt == g.received_[n] + 1
        fire == forward_complete(cnt, g, n)
        val == IF fire /\ g.type = "transfer"
               THEN apply(g.func_, acc, g.biases_[n].b)
               ELSE acc
        m1 == [m EXCEPT !.grp[nd].fs_[n] = buf,
                        !.grp[nd].received_[n] = cnt,
                        !.heap[buf] = val,
                        !.log.arrived[nd][n] = Append(@, m.heap[f])]
    IN  IF ~(n < g.size_) THEN [m EXCEPT !.err = "assert n<size_"]
        ELSE IF ~first /\ buf = Null THEN [m EXCEPT !.err = "null dereference"]
        ELSE IF ~first /\ m.heap[buf].sz # m.heap[f].sz
        THEN [m EXCEPT !.err = "shape mismatch"]
        ELSE IF fire
        THEN [m1 EXCEPT !.stack = Push(@, dispatch_frame("fwd", nd, n, Null)),
                        !.log.sent[nd][n] =
                            Append(@, [cube |-> val, after |-> Len(m1.log.arrived[nd][n])])]
        ELSE m1

(* the cube_p values held anywhere: node buffers, kernels, the running    *)
(* calls, the caller's argument and the returned map                       *)
held(g, eg, st, a, r) ==
    UNION { UNION { { g[nd].fs_[i], g[nd].gs_[i] } : i \in Chans(g[nd].size_) } :
            nd \in DOMAIN g }
    \cup UNION { { eg[e].edges_[k].last_input : k \in DOMAIN eg[e].edges_ } :
                 e \in DOMAIN eg }
    \cup { st[x].f : x \in { y \in 1 .. Len(st) : st[y].fn = "dispatch" } }
    \cup UNION { { a[nd][x] : x \in 1 .. Len(a[nd]) } : nd \in DOMAIN a }
    \cup UNION { { r[nd][x] : x \in DOMAIN r[nd] } : nd \in DOMAIN r }

(* shared_ptr: a cube nobody holds is released *)
release(h, g, eg, st, a, r) ==
    LET live == held(g, eg, st, a, r)
    IN  [id \in DOMAIN h \cap live |-> h[id]]

(* the step's outcome becomes the next state; a failed check ends the pass *)
Commit(m, a, r) ==
    IF m.err = "ok"
    THEN /\ grp' = m.grp
         /\ egrp' = m.egrp
         /\ stack' = m.stack
         /\ log' = [m.log EXCEPT !.steps = @ + 1]
         /\ arg' = a
         /\ ret' = r
         /\ heap' = release(m.heap, m.grp, m.egrp, m.stack, a, r)
         /\ UNCHANGED << pc, err >>
    ELSE /\ Fail(m.err)
         /\ UNCHANGED << grp, egrp, stack, log, arg, ret, heap >>

-----------------------------------------------------------------------------
(* network::forward *)

InputVals == { 10, -40 }

(* the caller's cube for channel i of the x-th input group *)
input_value(base, x, i) == base + 30 * (x - 1) + 10 * i

(* a valid argument of forward: one cube of shape fsize per input channel; *)
(* the cubes are placed in the heap from index `from` on                   *)
forward_cubes(base) ==
    LET names == MapOrder(input_nodes_)
    IN  [x \in 1 .. Len(names) |->
            [i \in 1 .. grp[names[x]].size_ |->
                Cube(nodes_[names[x]].fsize, input_value(base, x, i - 1))]]

RECURSIVE get_cubes(_, _)

(* the cubes cs allocated one after the other: [heap, ids] *)
get_cubes(h, cs) ==
    IF cs = << >> THEN [heap |-> h, ids |-> << >>]
    ELSE LET id == fresh(h)
             rest == get_cubes((id :> Head(cs)) @@ h, Tail(cs))
         IN  [heap |-> rest.heap, ids |-> << id >> \o rest.ids]

RECURSIVE place(_, _, _, _)

(* p.heap with the cubes of the lists cs[x] added; p.arg names them *)
place(p, names, cs, x) ==
    IF x > Len(names) THEN p
    ELSE LET got == get_cubes(p.heap, cs[x])
         IN  place([heap |-> got.heap, arg |-> (names[x] :> got.ids) @@ p.arg],
                   names, cs, x + 1)

MaxCalls == 4

(* calls records "E", "M", "W" for set_eta, set_momentum, set_weight_decay; *)
(* the runs explored call at most MaxSets setters, after their passes       *)
MaxSets == 1

setter_calls == { "E", "M", "W" }

setters_in(cs) == { k \in 1 .. Len(cs) : cs[k] \in setter_calls }

(* the caller may start another pass *)
pass_allowed ==
    /\ pc = "ready"
    /\ Len(calls) < MaxCalls
    /\ setters_in(calls) = { }

(* the ways a caller's map can differ from the valid one at the key t *)
FinShapes == { "valid", "missing", "renamed", "short", "long" }

without(a, t) == [k \in DOMAIN a \ { t } |-> a[k]]

(* the valid map a with the entry of key t left out, filed under the name  *)
(* other, or given one cube less or one more                               *)
reshape(a, shape, t, other) ==
    IF shape = "missing" THEN without(a, t)
    ELSE IF shape = "renamed" THEN (other :> a[t]) @@ without(a, t)
    ELSE IF shape = "short" THEN [a EXCEPT ![t] = SubSeq(@, 1, Len(@) - 1)]
    ELSE IF shape = "long" THEN [a EXCEPT ![t] = Append(@, @[1])]
    ELSE a

(* the map has exactly the input groups as keys and one cube per channel *)
fin_matches(a) ==
    /\ DOMAIN a = input_nodes_
    /\ \A k \in DOMAIN a : Len(a[k]) = grp[k].size_

(* the caller calls forward(fin) on the constructed network; calls records *)
(* "F" for a map that matches the input groups and "Fx" for one that does  *)
(* not                                                                     *)
call_forward ==
    /\ pass_allowed
    /\ \E base \in InputVals, shape \in FinShapes, t \in input_nodes_,
          other \in DOMAIN nodes_ \ input_nodes_ :
         LET h0 == release(heap, grp, egrp, << >>, EmptyMap, EmptyMap)
             compact == [heap |-> h0, arg |-> EmptyMap]
             p == place(compact, MapOrder(input_nodes_), forward_cubes(base), 1)
             fin == reshape(p.arg, shape, t, other)
         IN  /\ heap' = release(p.heap, grp, egrp, << >>, fin, EmptyMap)
             /\ arg' = fin
    /\ calls' = Append(calls, IF fin_matches(arg') THEN "F" ELSE "Fx")
    /\ ret' = EmptyMap
    /\ log' = new_log
    /\ IF Cardinality(DOMAIN arg') = Cardinality(input_nodes_)
       THEN /\ pc' = "forward"
            /\ stack' = << [fn |-> "forward", keys |-> MapOrder(DOMAIN arg'),
                            g |-> 1, i |-> 0] >>
            /\ UNCHANGED err
       ELSE /\ Fail("assert fin.size()")
            /\ UNCHANGED stack
    /\ UNCHANGED << grp, egrp >>
    /\ UNCHANGED ctor_args
    /\ UNCHANGED graph_vars

(* a check of the list length that accepts every list *)
any_length(g, list) == TRUE

(* ZI_ASSERT(in_layer->num_in_nodes()==in.second.size()) *)
length_matches(g, list) == g.size_ = Len(list)

(* the loop of network::forward over the groups and channels of fin: one  *)
(* call in_layer->forward(i, cube), which for an input group enters the    *)
(* dispatch loop of input_nodes::forward                                   *)
forward_next ==
    /\ pc = "forward"
    /\ stack # << >>
    /\ Top(stack).fn = "forward"
    /\ Top(stack).g <= Len(Top(stack).keys)
    /\ LET fr == Top(stack)
           name == fr.keys[fr.g]
           list == arg[name]
           nxt == IF fr.i + 1 < Len(list)
                  THEN [fr EXCEPT !.i = fr.i + 1]
                  ELSE [fr EXCEPT !.g = fr.g + 1, !.i = 0]
           m == Machine
       IN  IF name \notin input_nodes_
           THEN Commit([m EXCEPT !.err = "assert input_nodes_.count"], arg, ret)
           ELSE IF ~length_matches(grp[name], list)
           THEN Commit([m EXCEPT !.err = "assert num_in_nodes"], arg, ret)
           ELSE IF Len(list) = 0
           THEN Commit([m EXCEPT !.stack = Push(Pop(stack), nxt)], arg, ret)
           ELSE IF ~(fr.i < grp[name].size_)
           THEN Commit([m EXCEPT !.err = "assert n<size_"], arg, ret)
           ELSE Commit([m EXCEPT !.stack =
                            Push(Push(Pop(stack), nxt),
                                 dispatch_frame("fwd", name, fr.i, list[fr.i + 1])),
                                 !.log.sent[name][fr.i] =
                                     Append(@, [cube |-> heap[list[fr.i + 1]], after |-> 0])],
                       arg, ret)
    /\ UNCHANGED calls
    /\ UNCHANGED ctor_args
    /\ UNCHANGED graph_vars

(* e->forward(f) for the next out-edge of the dispatching channel:         *)
(* edge_of::forward runs the kernel and hands the result to the            *)
(* destination channel, which accumulates it and may start dispatching     *)
edge_forward ==
    /\ pc = "forward"
    /\ stack # << >>
    /\ Top(stack).fn = "dispatch"
    /\ Top(stack).dir = "fwd"
    /\ Top(stack).k <= Len(grp[Top(stack).node].outputs_[Top(stack).n])
    /\ LET fr == Top(stack)
           g == grp[fr.node]
           id == g.outputs_[fr.n][fr.k]
           f == IF g.type = "input" THEN fr.f ELSE g.fs_[fr.n]
           m0 == [Machine EXCEPT !.stack = Push(Pop(stack), [fr EXCEPT !.k = fr.k + 1])]
           m1 == kernel_forward(m0, id, f)
           dst == edges_[id.g].out
           m2 == IF m1.err = "ok"
                 THEN node_forward(m1, dst, m1.egrp[id.g].edges_[id.k].out_num, m1.out)
                 ELSE m1
       IN  IF f = Null
           THEN Commit([m0 EXCEPT !.err = "null dereference"], arg, ret)
           ELSE Commit(m2, arg, ret)
    /\ UNCHANGED calls
    /\ UNCHANGED ctor_args
    /\ UNCHANGED graph_vars

(* a summing node that forgets fs_[n].reset() *)
forward_end_keeps_fs(g, n) ==
    IF g.type \in {"sum", "transfer"} THEN [g EXCEPT !.received_[n] = 0] ELSE g

(* the end of summing_nodes::forward and transfer_nodes::forward, after    *)
(* the loop over the out-edges: received_[n] = 0, and a summing node       *)
(* releases fs_[n]                                                         *)
forward_end(g, n) ==
    IF g.type = "sum"
    THEN [g EXCEPT !.received_[n] = 0, !.fs_[n] = Null]
    ELSE IF g.type = "transfer"
    THEN [g EXCEPT !.received_[n] = 0]
    ELSE g

(* the dispatching channel has handed its cube to every out-edge *)
forward_dispatched ==
    /\ pc = "forward"
    /\ stack # << >>
    /\ Top(stack).fn = "dispatch"
    /\ Top(stack).dir = "fwd"
    /\ Top(stack).k > Len(grp[Top(stack).node].outputs_[Top(stack).n])
    /\ LET fr == Top(stack)
           g == grp[fr.node]
           m1 == [Machine EXCEPT !.stack = Pop(stack),
                                 !.grp[fr.node] = forward_end(g, fr.n)]
       IN  Commit(m1, arg, ret)
    /\ UNCHANGED calls
    /\ UNCHANGED ctor_args
    /\ UNCHANGED graph_vars

(* nodes::get_featuremaps of the output groups, as forward collects them *)
get_featuremaps(g, outs) == [l \in outs |-> g[l].fs_]

(* the end of network::forward: the map of the output groups' feature maps *)
forward_return ==
    /\ pc = "forward"
    /\ stack # << >>
    /\ Top(stack).fn = "forward"
    /\ Top(stack).g > Len(Top(stack).keys)
    /\ IF \E l \in output_nodes_ : grp[l].type = "input"
       THEN /\ Fail("unimplemented get_featuremaps")
            /\ UNCHANGED << stack, arg, ret, heap >>
       ELSE /\ pc' = "ready"
            /\ stack' = << >>
            /\ arg' = EmptyMap
            /\ ret' = get_featuremaps(grp, output_nodes_)
            /\ heap' = release(heap, grp, egrp, << >>, EmptyMap, ret')
            /\ UNCHANGED err
    /\ UNCHANGED << grp, egrp, log, calls >>
    /\ UNCHANGED ctor_args
    /\ UNCHANGED graph_vars

-----------------------------------------------------------------------------
(* network::backward *)

(* the weights as the update of this backward leaves them *)
upstream_weights_updated(flt, dEdW) == filter_update(flt, dEdW).W

(* filter_.W() as filter_edge::backward reads it for the gradient it       *)
(* returns: before filter_.update(dEdW) runs                               *)
upstream_weights(flt, dEdW) == flt.W

(* E::backward of edge id on the gradient at gp: m with the result at .out *)
kernel_backward(m, id, gp) ==
    LET eg == m.egrp[id.g]
        e == eg.edges_[id.k]
        g == m.heap[gp]
        out == fresh(m.heap)
        W == eg.filters_[filter_of(id)].W
        dEdW == convolve_sparse_flipped(m.heap[e.last_input], g, eg.stride, W.sz)
        r == IF eg.type = "conv"
             THEN convolve_sparse_inverse(
                      g, upstream_weights(eg.filters_[filter_of(id)], dEdW), eg.stride)
             ELSE IF eg.type = "max_filter" THEN pooling_backprop(e.insize, g)
             ELSE g
        bad == [m EXCEPT !.err = "ok"] @@ [out |-> Null]
        m1 == [m EXCEPT !.heap = (out :> r) @@ m.heap] @@ [out |-> out]
    IN  IF eg.type = "max_filter" /\ ~e.indices
        THEN [bad EXCEPT !.err = "assert indices"]
        ELSE IF eg.type = "max_filter"
                /\ e.insize # VAdd(g.sz, VMul(VSub(eg.size_, one), eg.stride))
        THEN [bad EXCEPT !.err = "assert insize"]
        ELSE IF eg.type = "conv" /\ e.last_input = Null
        THEN [bad EXCEPT !.err = "assert last_input"]
        ELSE IF eg.type = "conv"
                /\ m.heap[e.last_input].sz # VAdd(g.sz, VMul(VSub(W.sz, one), eg.stride))
        THEN [bad EXCEPT !.err = "shape mismatch"]
        ELSE IF eg.type = "conv"
        THEN [m1 EXCEPT !.egrp[id.g].filters_[filter_of(id)] = filter_update(@, dEdW),
                        !.log.filter_updates[id.g][filter_of(id)] = @ + 1]
        ELSE m1

(* a channel that dispatches on every gradient that arrives *)
backward_complete_always(cnt, g, n) == TRUE

(* a channel that sends its gradient on at the first arrival *)
backward_complete_at_first(cnt, g, n) == cnt = 1

(* the test "++received_[n] == outputs_[n].size() || outputs_[n].size() == 0" *)
backward_complete(cnt, g, n) == cnt = Len(g.outputs_[n]) \/ Len(g.outputs_[n]) = 0

(* a transfer node that sends the accumulated gradient on as it arrived *)
raw_gradient(fn, acc, f) == acc

(* func_.apply_grad of transfer_nodes::backward, on gs_[n] and fs_[n] *)
transfer_gradient(fn, acc, f) == apply_grad(fn, acc, f)

(* summing_nodes::backward / transfer_nodes::backward up to the dispatch   *)
(* loop (input_nodes::backward does nothing): channel n of group nd        *)
(* receives the gradient at gp                                             *)
node_backward(m, nd, n, gp) ==
    LET g == m.grp[nd]
        first == g.received_[n] = 0
        buf == IF first THEN gp ELSE g.gs_[n]
        acc == IF first THEN m.heap[gp]
               ELSE accumulate(m.heap[buf], m.heap[gp])
        cnt == g.received_[n] + 1
        fire == backward_complete(cnt, g, n)
        transfer == fire /\ g.type = "transfer"
        val == IF transfer THEN transfer_gradient(g.func_, acc, m.heap[g.fs_[n]]) ELSE acc
        m1 == [m EXCEPT !.grp[nd].gs_[n] = buf,
                        !.grp[nd].received_[n] = cnt,
                        !.heap[buf] = val,
                        !.log.arrived[nd][n] = Append(@, m.heap[gp])]
        m2 == IF transfer
              THEN [m1 EXCEPT !.grp[nd].biases_[n] = bias_update(@, sum(val)),
                              !.log.bias_updates[nd][n] = @ + 1]
              ELSE m1
    IN  IF g.type = "input" THEN m
        ELSE IF ~(n < g.size_) THEN [m EXCEPT !.err = "assert n<size_"]
        ELSE IF ~first /\ buf = Null THEN [m EXCEPT !.err = "null dereference"]
        ELSE IF ~first /\ m.heap[buf].sz # m.heap[gp].sz
        THEN [m EXCEPT !.err = "shape mismatch"]
        ELSE IF transfer /\ g.fs_[n] = Null THEN [m EXCEPT !.err = "null dereference"]
        ELSE IF transfer /\ m.heap[g.fs_[n]].sz # acc.sz
        THEN [m EXCEPT !.err = "shape mismatch"]
        ELSE IF fire
        THEN [m2 EXCEPT !.stack = Push(@, dispatch_frame("bwd", nd, n, Null)),
                        !.log.sent[nd][n] =
                            Append(@, [cube |-> val, after |-> Len(m2.log.arrived[nd][n])])]
        ELSE m1

GradVals == { 10, 30 }

(* a valid argument of backward: one gradient of shape fsize per channel   *)
(* of every output group                                                   *)
backward_cubes(base) ==
    LET names == MapOrder(output_nodes_)
    IN  [x \in 1 .. Len(names) |->
            [i \in 1 .. grp[names[x]].size_ |->
                Cube(nodes_[names[x]].fsize, input_value(base, x, i - 1))]]

(* the caller calls backward(fout) on the constructed network *)
call_backward ==
    /\ pass_allowed
    /\ \E base \in GradVals :
         LET h0 == release(heap, grp, egrp, << >>, EmptyMap, EmptyMap)
             p == place([heap |-> h0, arg |-> EmptyMap],
                        MapOrder(output_nodes_), backward_cubes(base), 1)
         IN  /\ heap' = p.heap
             /\ arg' = p.arg
    /\ calls' = Append(calls, "B")
    /\ ret' = EmptyMap
    /\ log' = new_log
    /\ IF Cardinality(DOMAIN arg') = Cardinality(input_nodes_)
       THEN /\ pc' = "backward"
            /\ stack' = << [fn |-> "backward", keys |-> MapOrder(DOMAIN arg'),
                            g |-> 1, i |-> 0] >>
            /\ UNCHANGED err
       ELSE /\ Fail("assert fout.size()")
            /\ UNCHANGED stack
    /\ UNCHANGED << grp, egrp >>
    /\ UNCHANGED ctor_args
    /\ UNCHANGED graph_vars

(* the loop of network::backward over the groups and channels of fout:     *)
(* one call out_layer->backward(i, cube)                                   *)
backward_next ==
    /\ pc = "backward"
    /\ stack # << >>
    /\ Top(stack).fn = "backward"
    /\ Top(stack).g <= Len(Top(stack).keys)
    /\ LET fr == Top(stack)
           name == fr.keys[fr.g]
           list == arg[name]
           nxt == IF fr.i + 1 < Len(list)
                  THEN [fr EXCEPT !.i = fr.i + 1]
                  ELSE [fr EXCEPT !.g = fr.g + 1, !.i = 0]
           m == [Machine EXCEPT !.stack = Push(Pop(stack), nxt)]
       IN  IF name \notin output_nodes_
           THEN Commit([m EXCEPT !.err = "assert output_nodes_.count"], arg, ret)
           ELSE IF grp[name].size_ # Len(list)
           THEN Commit([m EXCEPT !.err = "assert num_out_nodes"], arg, ret)
           ELSE Commit(node_backward(m, name, fr.i, list[fr.i + 1]), arg, ret)
    /\ UNCHANGED calls
    /\ UNCHANGED ctor_args
    /\ UNCHANGED graph_vars

(* e->backward(g) for the next in-edge of the dispatching channel:         *)
(* edge_of::backward runs the kernel and hands the result to the source    *)
(* channel, which accumulates it and may start dispatching                 *)
edge_backward ==
    /\ pc = "backward"
    /\ stack # << >>
    /\ Top(stack).fn = "dispatch"
    /\ Top(stack).dir = "bwd"
    /\ Top(stack).k <= Len(grp[Top(stack).node].inputs_[Top(stack).n])
    /\ LET fr == Top(stack)
           g == grp[fr.node]
           id == g.inputs_[fr.n][fr.k]
           gp == g.gs_[fr.n]
           m0 == [Machine EXCEPT !.stack = Push(Pop(stack), [fr EXCEPT !.k = fr.k + 1])]
           m1 == kernel_backward(m0, id, gp)
           src == edges_[id.g].in
           m2 == IF m1.err = "ok"
                 THEN node_backward(m1, src, m1.egrp[id.g].edges_[id.k].in_num, m1.out)
                 ELSE m1
       IN  IF gp = Null
           THEN Commit([m0 EXCEPT !.err = "null dereference"], arg, ret)
           ELSE Commit(m2, arg, ret)
    /\ UNCHANGED calls
    /\ UNCHANGED ctor_args
    /\ UNCHANGED graph_vars

(* a transfer node that forgets fs_[n].reset() *)
backward_end_keeps_fs(g, n) == [g EXCEPT !.received_[n] = 0, !.gs_[n] = Null]

(* the end of summing_nodes::backward and transfer_nodes::backward, after  *)
(* the loop over the in-edges: received_[n] = 0 and gs_[n] is released; a  *)
(* transfer node releases fs_[n] as well                                   *)
backward_end(g, n) ==
    IF g.type = "transfer"
    THEN [g EXCEPT !.received_[n] = 0, !.gs_[n] = Null, !.fs_[n] = Null]
    ELSE [g EXCEPT !.received_[n] = 0, !.gs_[n] = Null]

(* the dispatching channel has handed its gradient to every in-edge *)
backward_dispatched ==
    /\ pc = "backward"
    /\ stack # << >>
    /\ Top(stack).fn = "dispatch"
    /\ Top(stack).dir = "bwd"
    /\ Top(stack).k > Len(grp[Top(stack).node].inputs_[Top(stack).n])
    /\ LET fr == Top(stack)
           g == grp[fr.node]
           m1 == [Machine EXCEPT !.stack = Pop(stack),
                                 !.grp[fr.node] = backward_end(g, fr.n)]
       IN  Commit(m1, arg, ret)
    /\ UNCHANGED calls
    /\ UNCHANGED ctor_args
    /\ UNCHANGED graph_vars

(* the end of network::backward: an empty list per input group *)
backward_return ==
    /\ pc = "backward"
    /\ stack # << >>
    /\ Top(stack).fn = "backward"
    /\ Top(stack).g > Len(Top(stack).keys)
    /\ pc' = "ready"
    /\ stack' = << >>
    /\ arg' = EmptyMap
    /\ ret' = [l \in input_nodes_ |-> << >>]
    /\ heap' = release(heap, grp, egrp, << >>, EmptyMap, ret')
    /\ UNCHANGED << err, grp, egrp, log, calls >>
    /\ UNCHANGED ctor_args
    /\ UNCHANGED graph_vars

-----------------------------------------------------------------------------
(* The constructor's arguments.  Node groups are named a, b, c and edge    *)
(* groups e1, e2, ... in the order they are declared.                      *)

-----------------------------------------------------------------------------
(* Hyperparameter setters and serialize *)

(* options::push(k, v): the bag with key k holding v *)
push(op, k, v) == [x \in DOMAIN op \cup { k } |-> IF x = k THEN v ELSE op[x]]

(* filter_edges::set_eta, set_momentum, set_weight_decay; the dummy and    *)
(* max-pooling groups ignore the setters                                   *)
filter_edges_set_eta(eg, eta) ==
    IF eg.type # "conv" THEN eg
    ELSE [eg EXCEPT !.options_ = push(@, "eta", eta),
                    !.filters_ = [k \in DOMAIN @ |-> [@[k] EXCEPT !.eta = eta]]]

filter_edges_set_momentum(eg, mom) ==
    IF eg.type # "conv" THEN eg
    ELSE [eg EXCEPT !.options_ = push(@, "momentum", mom),
                    !.filters_ = [k \in DOMAIN @ |-> [@[k] EXCEPT !.momentum = mom]]]

filter_edges_set_weight_decay(eg, wd) ==
    IF eg.type # "conv" THEN eg
    ELSE [eg EXCEPT !.options_ = push(@, "weight_decay", wd),
                    !.filters_ = [k \in DOMAIN @ |-> [@[k] EXCEPT !.weight_decay = wd]]]

(* transfer_nodes::set_eta, set_momentum, set_weight_decay; input and      *)
(* summing groups ignore the setters                                       *)
transfer_nodes_set_eta(g, eta) ==
    IF g.type # "transfer" THEN g
    ELSE [g EXCEPT !.options_ = push(@, "eta", eta),
                   !.biases_ = [i \in DOMAIN @ |-> [@[i] EXCEPT !.eta = eta]]]

transfer_nodes_set_momentum(g, mom) ==
    IF g.type # "transfer" THEN g
    ELSE [g EXCEPT !.options_ = push(@, "momentum", mom),
                   !.biases_ = [i \in DOMAIN @ |-> [@[i] EXCEPT !.momentum = mom]]]

(* a set_weight_decay that writes the momentum factor *)
set_weight_decay_as_momentum(g, wd) == transfer_nodes_set_momentum(g, wd)

transfer_nodes_set_weight_decay(g, wd) ==
    IF g.type # "transfer" THEN g
    ELSE [g EXCEPT !.options_ = push(@, "weight_decay", wd),
                   !.biases_ = [i \in DOMAIN @ |-> [@[i] EXCEPT !.weight_decay = wd]]]

(* the values the caller sets, in tenths *)
HyperVals == { 5, 20 }

(* what every setter call does besides the broadcast *)
setter_called(c, x) ==
    /\ pc = "ready"
    /\ Len(calls) < MaxCalls
    /\ Cardinality(setters_in(calls)) < MaxSets
    /\ calls' = Append(calls, c)
    /\ log' = [(IF log = EmptyMap THEN new_log ELSE log) EXCEPT !.hyper = x]
    /\ UNCHANGED << pc, err, heap, stack, arg, ret >>
    /\ UNCHANGED ctor_args
    /\ UNCHANGED graph_vars

(* network::set_eta *)
set_eta ==
    \E eta \in HyperVals :
       /\ setter_called("E", eta)
       /\ egrp' = [e \in DOMAIN egrp |-> filter_edges_set_eta(egrp[e], eta)]
       /\ grp' = [n \in DOMAIN grp |-> transfer_nodes_set_eta(grp[n], eta)]

(* network::set_momentum *)
set_momentum ==
    \E mom \in HyperVals :
       /\ setter_called("M", mom)
       /\ egrp' = [e \in DOMAIN egrp |-> filter_edges_set_momentum(egrp[e], mom)]
       /\ grp' = [n \in DOMAIN grp |-> transfer_nodes_set_momentum(grp[n], mom)]

(* network::set_weight_decay *)
set_weight_decay ==
    \E wd \in HyperVals :
       /\ setter_called("W", wd)
       /\ egrp' = [e \in DOMAIN egrp |-> filter_edges_set_weight_decay(egrp[e], wd)]
       /\ grp' = [n \in DOMAIN grp |-> transfer_nodes_set_weight_decay(grp[n], wd)]

(* save_biases and save_filters: the current values, one per bias / filter *)
save_biases(bs) == [k \in 1 .. Cardinality(DOMAIN bs) |-> bs[k - 1].b]
save_filters(fs) == [k \in 1 .. Cardinality(DOMAIN fs) |-> fs[k - 1].W.v]

(* nodes::serialize and edges::serialize of one group *)
nodes_serialize(g) ==
    IF g.type = "transfer" THEN push(g.options_, "biases", save_biases(g.biases_))
    ELSE g.options_

edges_serialize(eg) ==
    IF eg.type = "conv" THEN push(eg.options_, "filters", save_filters(eg.filters_))
    ELSE eg.options_

(* network::serialize, the bags in map order *)
serialize ==
    << [k \in 1 .. Len(MapOrder(DOMAIN grp)) |->
          nodes_serialize(grp[MapOrder(DOMAIN grp)[k]])],
       [k \in 1 .. Len(MapOrder(DOMAIN egrp)) |->
          edges_serialize(egrp[MapOrder(DOMAIN egrp)[k]])] >>

(* network::fov: the fov of the first input group in map order *)
network_fov == nodes_[Head(MapOrder(input_nodes_))].fov

-----------------------------------------------------------------------------
MaxSize == 2
MaxEdges == 3

EdgeNames == << "e1", "e2", "e3", "e4", "e5" >>

input_bag(nm, sz) == [name |-> nm, type |-> "input", size |-> sz]
sum_bag(nm, sz) == [name |-> nm, type |-> "sum", size |-> sz]
transfer_bag(nm, sz, fn) ==
    [name |-> nm, type |-> "transfer", size |-> sz, function |-> fn]

(* the size option of the node bag called nm in the list nl (0: not declared) *)
declared_size(nl, nm) ==
    IF \E k \in 1 .. Len(nl) : nl[k].name = nm
    THEN (CHOOSE b \in {nl[k] : k \in 1 .. Len(nl)} : b.name = nm).size
    ELSE 0

(* an edge bag of the given kind between the named groups; a conv bag      *)
(* carries one weight per filter when the kind asks for it (w > 0)         *)
edge_bag(nm, pair, kind, nl) ==
    LET base == [name |-> nm, input |-> pair[1], output |-> pair[2]]
        nm_ == declared_size(nl, pair[1]) * declared_size(nl, pair[2])
    IN  IF kind.type = "conv" /\ kind.w > 0
        THEN base @@ [type |-> "conv", size |-> kind.size,
                      filters |-> [k \in 1 .. nm_ |-> kind.w + 10 * (k - 1)]]
        ELSE IF kind.type = "conv"
        THEN base @@ [type |-> "conv", size |-> kind.size]
        ELSE base @@ kind

edge_list(descs, nl) ==
    [k \in 1 .. Len(descs) |-> edge_bag(EdgeNames[k], descs[k][1], descs[k][2], nl)]

SeqsUpTo(S, n) == UNION { [1 .. k -> S] : k \in 0 .. n }

(* the lists of at most n edge descriptions that join no pair twice *)
DistinctSeqs(S, n) ==
    { d \in SeqsUpTo(S, n) :
        \A x, y \in 1 .. Len(d) : x # y => d[x][1] # d[y][1] }

GeomNodeLists ==
    { << input_bag("a", 1), bb, cc >> :
        bb \in { input_bag("b", 1), sum_bag("b", 1) },
        cc \in { sum_bag("c", 1), transfer_bag("c", MaxSize, "linear") } }

(* node lists that declare a name twice or use an unknown type *)
GeomBadNodeLists ==
    { << input_bag("a", 1), sum_bag("b", 1), sum_bag("a", 1) >>,
      << input_bag("a", 1), [name |-> "b", type |-> "pool", size |-> 1],
         sum_bag("c", 1) >> }

(* edge lists that declare a name twice, use an unknown type, or name a    *)
(* node group that is not declared                                         *)
GeomBadEdgeLists ==
    { << [name |-> "e1", type |-> "dummy", input |-> "a", output |-> "b"],
         [name |-> "e1", type |-> "dummy", input |-> "b", output |-> "c"] >>,
      << [name |-> "e1", type |-> "dummy", input |-> "a", output |-> "b"],
         [name |-> "e2", type |-> "pool", input |-> "b", output |-> "c"] >>,
      << [name |-> "e1", type |-> "dummy", input |-> "a", output |-> "d"] >>,
      << [name |-> "e1", type |-> "dummy", input |-> "d", output |-> "c"] >> }

GeomPairs == { << "a", "b" >>, << "a", "c" >>, << "b", "c" >> }

GeomKinds ==
    { [type |-> "dummy"],
      [type |-> "conv", size |-> << 1, 2, 3 >>, w |-> 10],
      [type |-> "max_filter", size |-> << 2, 2, 1 >>, stride |-> << 2, 1, 2 >>] }

GeomOutSizes == { << 1, 1, 1 >>, << 2, 3, 1 >> }

InitCommon ==
    /\ pc = "add"
    /\ err = ""
    /\ nodes_ = EmptyMap
    /\ edges_ = EmptyMap
    /\ input_nodes_ = {}
    /\ output_nodes_ = {}
    /\ grp = EmptyMap
    /\ egrp = EmptyMap
    /\ heap = EmptyMap
    /\ stack = << >>
    /\ arg = EmptyMap
    /\ ret = EmptyMap
    /\ calls = << >>
    /\ log = EmptyMap

(* Two more networks: a pooling of 2 with stride 2 followed by a           *)
(* convolution of 2; and a group b that no input group reaches, joined at  *)
(* c by the input group a, with c feeding d.                               *)
GeomChains ==
    { [ ns |-> << input_bag("a", 1), sum_bag("b", 1), sum_bag("c", 1) >>,
        descs |-> << << << "a", "b" >>,
                        [type |-> "max_filter", size |-> << 2, 2, 2 >>,
                         stride |-> << 2, 2, 2 >>] >>,
                     << << "b", "c" >>,
                        [type |-> "conv", size |-> << 2, 2, 2 >>, w |-> 10] >> >> ] }
    \cup
    { [ ns |-> << input_bag("a", 1), sum_bag("b", 1), sum_bag("c", 1),
                 sum_bag("d", 1) >>,
        descs |-> << << << "a", "c" >>, k1 >>, << << "b", "c" >>, k2 >>,
                     << << "c", "d" >>, k3 >> >> ] :
        k1 \in GeomKinds, k2 \in GeomKinds, k3 \in GeomKinds }

InitGeom ==
    /\ \/ /\ ns \in GeomNodeLists \cup GeomBadNodeLists
          /\ \/ \E descs \in SeqsUpTo(GeomPairs \X GeomKinds, MaxEdges) :
                   es = edge_list(descs, ns)
             \/ es \in GeomBadEdgeLists
       \/ \E x \in GeomChains :
             /\ ns = x.ns
             /\ es = edge_list(x.descs, x.ns)
    /\ outsz \in GeomOutSizes
    /\ InitCommon

NextGeom ==
    \/ add_nodes
    \/ add_edges
    \/ init
    \/ create_edges

SpecGeom == InitGeom /\ [][NextGeom]_vars

(* The networks the passes are run on: an input group a and up to three    *)
(* more groups, wired by up to MaxEdges edge groups that join no pair of   *)
(* groups twice.                                                           *)

RunNodeLists ==
    { << input_bag("a", 1), transfer_bag("c", MaxSize, "rectify_linear") >>,
      << input_bag("a", 1), transfer_bag("b", MaxSize, "rectify_linear"),
         sum_bag("c", MaxSize) >>,
      << input_bag("a", 1), sum_bag("b", MaxSize), sum_bag("c", MaxSize) >>,
      << input_bag("a", MaxSize), input_bag("b", 1), transfer_bag("c", 1, "linear") >>,
      << input_bag("a", 1), sum_bag("b", 1), transfer_bag("c", 1, "linear") >>,
      << input_bag("a", 1), transfer_bag("b", 1, "linear"), sum_bag("c", 1) >>,
      << input_bag("a", 1), input_bag("b", 1), transfer_bag("c", 1, "linear"),
         sum_bag("d", 1) >> }

RunKinds ==
    { [type |-> "dummy"],
      [type |-> "conv", size |-> << 2, 1, 1 >>, w |-> 10],
      [type |-> "max_filter", size |-> << 2, 1, 1 >>, stride |-> << 2, 1, 1 >> ] }

(* a-c and b-c joined at c, which feeds d *)
Joins ==
    { << << << "a", "c" >>, k1 >>, << << "b", "c" >>, [type |-> "dummy"] >>,
         << << "c", "d" >>, k3 >> >> :
        k1 \in RunKinds, k3 \in RunKinds }

RunEdgeLists == DistinctSeqs(GeomPairs \X RunKinds, MaxEdges) \cup Joins

RunOutSizes == { << 1, 1, 1 >> }

InitRun ==
    /\ ns \in RunNodeLists
    /\ \E descs \in RunEdgeLists : es = edge_list(descs, ns)
    /\ outsz \in RunOutSizes
    /\ InitCommon

Next ==
    \/ add_nodes
    \/ add_edges
    \/ init
    \/ create_edges
    \/ call_forward
    \/ forward_next
    \/ edge_forward
    \/ forward_dispatched
    \/ forward_return
    \/ call_backward
    \/ backward_next
    \/ edge_backward
    \/ backward_dispatched
    \/ backward_return
    \/ set_eta
    \/ set_momentum
    \/ set_weight_decay

Spec == InitRun /\ [][Next]_vars

-----------------------------------------------------------------------------
(* Properties of the passes and of the constructed geometry.               *)

Last(q) == q[Len(q)]

(* the summing and transfer node groups *)
computing == { nd \in DOMAIN grp : grp[nd].type \in {"sum", "transfer"} }

(* the conv edges: << group, index >> *)
conv_edges ==
    UNION { { << e, k >> : k \in DOMAIN egrp[e].edges_ } :
            e \in { x \in DOMAIN egrp : egrp[x].type = "conv" } }

RECURSIVE reached_from(_)

(* the node groups reached from the groups S along edge groups *)
reached_from(S) ==
    LET T == S \cup { edges_[e].out : e \in { x \in DOMAIN edges_ : edges_[x].in \in S } }
    IN  IF T = S THEN S ELSE reached_from(T)

successors(n) == { edges_[e].out : e \in { x \in DOMAIN edges_ : edges_[x].in = n } }

(* a DAG where every non-input channel has at least one in-edge and is fed *)
(* from input groups                                                       *)
well_formed ==
    /\ \A n \in DOMAIN nodes_ : n \notin reached_from(successors(n))
    /\ \A nd \in computing : \A i \in Chans(grp[nd].size_) : Len(grp[nd].inputs_[i]) > 0
    /\ DOMAIN grp \subseteq reached_from(input_nodes_)

(* the last call was c and it has returned *)
returned(c) == pc = "ready" /\ calls # << >> /\ Last(calls) = c

(* the calls so far are forward / backward pairs, a last forward possibly  *)
(* still without its backward                                              *)
alternating ==
    \A k \in 1 .. Len(calls) : calls[k] = IF k % 2 = 1 THEN "F" ELSE "B"

(* the sum of the first n cubes of q *)
RECURSIVE sum_of(_, _)
sum_of(q, n) ==
    IF n = 0 THEN 0 ELSE sum_of(q, n - 1) + q[n].v

(* C1: after forward returns on a well-formed graph, every channel of every *)
(* summing and transfer node has received = 0; a summing node has released  *)
(* its feature buffer, a transfer node still holds its feature map.         *)
C1_ForwardLeavesCountersZero ==
    (returned("F") /\ well_formed) =>
        \A nd \in computing : \A i \in Chans(grp[nd].size_) :
            /\ grp[nd].received_[i] = 0
            /\ grp[nd].type = "sum" => grp[nd].fs_[i] = Null
            /\ grp[nd].type = "transfer" => grp[nd].fs_[i] \in DOMAIN heap

C1_Witness ==
    /\ returned("F")
    /\ well_formed
    /\ \E nd \in computing : grp[nd].type = "sum" /\ Len(grp[nd].inputs_[0]) >= 2
    /\ \E nd \in computing : grp[nd].type = "transfer"

(* C2: after any number of forward / backward pairs on a well-formed graph, *)
(* every channel of every summing and transfer node has received = 0 and    *)
(* has released both its feature and its gradient buffer.                   *)
C2_PairsLeaveNodesClean ==
    (returned("B") /\ alternating /\ well_formed) =>
        \A nd \in computing : \A i \in Chans(grp[nd].size_) :
            /\ grp[nd].received_[i] = 0
            /\ grp[nd].fs_[i] = Null
            /\ grp[nd].gs_[i] = Null

C2_Witness ==
    /\ returned("B")
    /\ calls = << "F", "B", "F", "B" >>
    /\ well_formed
    /\ \E nd \in computing : grp[nd].type = "sum"
    /\ \E nd \in computing : grp[nd].type = "transfer" /\ Len(grp[nd].outputs_[0]) >= 1

RECURSIVE count(_, _)
count(f, S) ==
    IF S = {} THEN 0
    ELSE LET x == CHOOSE y \in S : TRUE IN f[x] + count(f, S \ {x})

forward_work ==
    count([nd \in DOMAIN grp |-> grp[nd].size_], DOMAIN grp)
    + count([nd \in DOMAIN grp |-> grp[nd].size_], input_nodes_)
    + count([e \in DOMAIN egrp |-> Cardinality(DOMAIN egrp[e].edges_)], DOMAIN egrp)

(* the running forward has a next step: the guard of forward_next, of      *)
(* forward_return, of edge_forward or of forward_dispatched holds          *)
forward_can_step ==
    /\ stack # << >>
    /\ \/ Top(stack).fn = "forward" /\ Top(stack).g <= Len(Top(stack).keys)
       \/ Top(stack).fn = "forward" /\ Top(stack).g > Len(Top(stack).keys)
       \/ /\ Top(stack).fn = "dispatch"
          /\ Top(stack).dir = "fwd"
          /\ Top(stack).k <= Len(grp[Top(stack).node].outputs_[Top(stack).n])
       \/ /\ Top(stack).fn = "dispatch"
          /\ Top(stack).dir = "fwd"
          /\ Top(stack).k > Len(grp[Top(stack).node].outputs_[Top(stack).n])

(* C4: a forward on a well-formed graph terminates: while it runs it always *)
(* has a next step, and it has taken at most forward_work steps; no channel *)
(* of a summing or transfer node dispatches more than once on the way; the  *)
(* only check that can stop it is the collection of an input group's        *)
(* feature maps; and when it returns it has taken exactly forward_work      *)
(* steps and every such channel has dispatched exactly once.                *)
C4_ForwardCompletes ==
    /\ (pc = "forward" /\ well_formed) =>
          /\ forward_can_step
          /\ log.steps <= forward_work
          /\ \A nd \in computing : \A i \in Chans(grp[nd].size_) :
                Len(log.sent[nd][i]) <= 1
    /\ (pc = "failed" /\ calls # << >> /\ Last(calls) = "F" /\ well_formed) =>
          err = "unimplemented get_featuremaps"
    /\ (returned("F") /\ well_formed) =>
          /\ log.steps = forward_work
          /\ \A nd \in computing : \A i \in Chans(grp[nd].size_) :
                Len(log.sent[nd][i]) = 1

C4_Witness ==
    /\ returned("F")
    /\ well_formed
    /\ Cardinality(computing) >= 2
    /\ \E nd \in computing : grp[nd].size_ >= 2 /\ Len(grp[nd].inputs_[0]) >= 2
    /\ \A nd \in computing : \A i \in Chans(grp[nd].size_) : Len(log.sent[nd][i]) = 1

(* C5: forward returns one entry per output node group and the entry holds, *)
(* for every channel, the feature map the channel computed in this pass,    *)
(* whatever the type of the output group.                                   *)
C5_ForwardReturnsFeatureMaps ==
    (returned("F") /\ well_formed) =>
        /\ DOMAIN ret = output_nodes_
        /\ \A l \in output_nodes_ : \A i \in Chans(grp[l].size_) :
             /\ ret[l][i] \in DOMAIN heap
             /\ Len(log.sent[l][i]) = 1
             /\ heap[ret[l][i]] = log.sent[l][i][1].cube

(* C6: on a well-formed graph with any number of input and output groups, *)
(* a backward that follows its forward and is given exactly the output      *)
(* group names as keys and one gradient per channel passes the checks of    *)
(* the call and runs to completion.                                         *)
C6_BackwardAcceptsOutputKeys ==
    (calls # << >> /\ Last(calls) = "B" /\ alternating /\ well_formed) => pc # "failed"

C8_StrideRelation ==
    pc = "ready" =>
        /\ \A n \in input_nodes_ : nodes_[n].stride = one
        /\ \A e \in DOMAIN edges_ :
             nodes_[edges_[e].out].stride =
                 VMul(nodes_[edges_[e].in].stride, edges_[e].stride)

(* C9: after construction every output group has fov (1,1,1) and fsize      *)
(* outsz, and for every edge group e from u to d:                           *)
(* u.fov = (d.fov - 1) * e.stride + e.width and                             *)
(* u.fsize = (e.width - 1) * u.stride + d.fsize.                            *)
C9_FovRelation ==
    pc = "ready" =>
        /\ \A n \in output_nodes_ : nodes_[n].fov = one /\ nodes_[n].fsize = outsz
        /\ \A e \in DOMAIN edges_ :
             LET u == nodes_[edges_[e].in]
                 d == nodes_[edges_[e].out]
             IN  /\ u.fov = VAdd(VMul(VSub(d.fov, one), edges_[e].stride), edges_[e].width)
                 /\ u.fsize = VAdd(VMul(VSub(edges_[e].width, one), u.stride), d.fsize)

C9_Witness ==
    /\ pc = "ready"
    /\ outsz # one
    /\ \E e \in DOMAIN edges_ :
         /\ nodes_[edges_[e].in].stride \notin {zero, one}
         /\ edges_[e].width # one

(* C10: after construction every node group has a non-zero fov, stride and  *)
(* fsize.                                                                   *)
C10_GeometryNonZero ==
    pc = "ready" =>
        \A n \in DOMAIN nodes_ :
            nodes_[n].fov # zero /\ nodes_[n].stride # zero /\ nodes_[n].fsize # zero

-----------------------------------------------------------------------------
(* Strides accumulated along paths, computed from the declared edge groups *)
(* alone                                                                   *)

in_edges_of(n) == { e \in DOMAIN edges_ : edges_[e].out = n }
out_edges_of(n) == { e \in DOMAIN edges_ : edges_[e].in = n }

RECURSIVE path_strides(_)

(* the products of the edge-group strides along every path from an input   *)
(* group to n                                                              *)
path_strides(n) ==
    (IF n \in input_nodes_ THEN { one } ELSE { }) \cup
    UNION { { VMul(s, edges_[e].stride) : s \in path_strides(edges_[e].in) } :
            e \in in_edges_of(n) }

strided(e) == egrp[e].type \in { "conv", "max_filter" }

(* C11: no edge kernel exists before the geometry passes have run, and     *)
(* every convolution and max-pooling kernel is dilated by the stride       *)
(* computed for its source group, which is the product of the edge-group   *)
(* strides along the paths from an input group to that source.             *)
C11_KernelDilation ==
    /\ pc \in { "add", "create" } => egrp = EmptyMap
    /\ pc = "ready" =>
         \A e \in DOMAIN egrp :
            strided(e) =>
              /\ egrp[e].stride = nodes_[edges_[e].in].stride
              /\ edges_[e].in \in reached_from(input_nodes_) =>
                   path_strides(edges_[e].in) = { egrp[e].stride }

(* a convolution behind a strided pooling group is dilated by that stride *)
C11_Witness ==
    /\ pc = "ready"
    /\ \E e \in DOMAIN egrp, p \in DOMAIN egrp :
          /\ egrp[e].type = "conv"
          /\ egrp[p].type = "max_filter"
          /\ edges_[p].out = edges_[e].in
          /\ edges_[p].stride # one
          /\ egrp[e].stride = edges_[p].stride

-----------------------------------------------------------------------------
(* how often x occurs in the sequence q *)
occurrences(q, x) == Cardinality({ p \in 1 .. Len(q) : q[p] = x })

(* C12: once the graph is constructed a convolution group between n source *)
(* channels and m destination channels has exactly the n*m edges and       *)
(* filters k = i*m + j, edge k joining i to j; a pooling or dummy group    *)
(* joins equally sized groups by the n edges i -> i; and every edge is     *)
(* listed exactly once in its source channel's out-edges and exactly once  *)
(* in its destination channel's in-edges, and in no other channel.         *)
C12_EdgeGroupShape ==
    \A e \in DOMAIN egrp :
       LET src == grp[edges_[e].in]
           dst == grp[edges_[e].out]
           n == src.size_
           m == dst.size_
           E == egrp[e].edges_
       IN  /\ IF egrp[e].type = "conv"
              THEN /\ DOMAIN E = 0 .. (n * m - 1)
                   /\ DOMAIN egrp[e].filters_ = DOMAIN E
                   /\ \A i \in Chans(n), j \in Chans(m) :
                         /\ E[i * m + j].in_num = i
                         /\ E[i * m + j].out_num = j
              ELSE /\ n = m
                   /\ DOMAIN E = Chans(n)
                   /\ egrp[e].filters_ = EmptyMap
                   /\ \A i \in Chans(n) : E[i].in_num = i /\ E[i].out_num = i
           /\ \A k \in DOMAIN E :
                 /\ \A i \in Chans(n) :
                       occurrences(src.outputs_[i], [g |-> e, k |-> k])
                           = IF i = E[k].in_num THEN 1 ELSE 0
                 /\ \A j \in Chans(m) :
                       occurrences(dst.inputs_[j], [g |-> e, k |-> k])
                           = IF j = E[k].out_num THEN 1 ELSE 0

(* a constructed convolution group between two multi-channel groups *)
C12_Witness ==
    \E e \in DOMAIN egrp :
       /\ egrp[e].type = "conv"
       /\ grp[edges_[e].in].size_ > 1
       /\ grp[edges_[e].out].size_ > 1

-----------------------------------------------------------------------------
(* Field of view and feature-map size accumulated along paths from the     *)
(* outputs, computed from the declared edge groups alone                   *)

(* the stride of group n when all paths from the inputs agree on it *)
dilation(n) ==
    IF path_strides(n) = { } THEN zero ELSE CHOOSE s \in path_strides(n) : TRUE

RECURSIVE path_geoms(_)

(* the pairs << fov, fsize >> that the paths from n to an output yield *)
path_geoms(n) ==
    (IF out_edges_of(n) = { } THEN { << one, outsz >> } ELSE { }) \cup
    UNION { { << VAdd(VMul(VSub(p[1], one), edges_[e].stride), edges_[e].width),
                 VAdd(VMul(VSub(edges_[e].width, one), dilation(n)), p[2]) >> :
              p \in path_geoms(edges_[e].out) } :
            e \in out_edges_of(n) }

stride_conflict == \E n \in DOMAIN nodes_ : Cardinality(path_strides(n)) > 1
geom_conflict == \E n \in DOMAIN nodes_ : Cardinality(path_geoms(n)) > 1

(* C13: construction does not get past init when some node group is        *)
(* reached from the inputs along two paths with different accumulated      *)
(* strides, or from the outputs along two paths that give different fov or *)
(* fsize; no graph is built from the first value of a conflicting pair.    *)
C13_ConflictStopsConstruction ==
    (ns = << >> /\ es = << >> /\ (stride_conflict \/ geom_conflict))
        => /\ pc \in { "add", "failed" }
           /\ egrp = EmptyMap

(* construction stopped on a group with two different path strides *)
C13_Witness ==
    /\ pc = "failed"
    /\ err = "assert geometry mismatch"
    /\ stride_conflict

-----------------------------------------------------------------------------
(* what makes an option bag unacceptable, read off the bag and the names   *)
(* declared so far                                                         *)

bad_node_bag(op) ==
    \/ op.type \notin { "input", "sum", "transfer" }
    \/ op.name \in DOMAIN nodes_

bad_edge_bag(op) ==
    \/ op.type \notin { "max_filter", "conv", "dummy" }
    \/ op.name \in DOMAIN edges_
    \/ op.input \notin DOMAIN nodes_
    \/ op.output \notin DOMAIN nodes_

(* C14: adding a node bag of unknown type or with a name already declared, *)
(* or an edge bag of unknown type, with a name already declared, or naming *)
(* an undeclared node group, stops construction with an error; a stopped   *)
(* construction stays stopped and has no edge kernels.                     *)
C14_BadBagStopsConstruction ==
    [][ /\ (pc = "add" /\ ns # << >> /\ bad_node_bag(Head(ns)))
            => (pc' = "failed" /\ err' # "")
        /\ (pc = "add" /\ ns = << >> /\ es # << >> /\ bad_edge_bag(Head(es)))
            => (pc' = "failed" /\ err' # "")
        /\ (pc = "failed" /\ egrp = EmptyMap)
            => (pc' = "failed" /\ egrp' = EmptyMap) ]_vars

(* construction stopped on the second edge group called e1 *)
C14_Witness ==
    /\ pc = "failed"
    /\ err = "assert duplicate edge name"
    /\ egrp = EmptyMap

-----------------------------------------------------------------------------
(* the forward loop has run through all groups of fin and is about to      *)
(* collect the feature maps                                                *)
forward_loop_done ==
    /\ pc = "forward"
    /\ stack # << >>
    /\ Top(stack).fn = "forward"
    /\ Top(stack).g > Len(Top(stack).keys)

(* C15: a forward whose map does not have exactly the input groups as keys *)
(* or has a list whose length is not the group's channel count never gets  *)
(* through its loop and never returns; when it stops it stops on one of    *)
(* the three assertions of network::forward.                               *)
C15_MismatchedInputStops ==
    /\ pc = "forward" => (Last(calls) = "Fx" <=> ~fin_matches(arg))
    /\ (calls # << >> /\ Last(calls) = "Fx") =>
          /\ pc \in { "forward", "failed" }
          /\ ~forward_loop_done
          /\ ret = EmptyMap
          /\ pc = "failed" =>
                err \in { "assert fin.size()", "assert input_nodes_.count",
                          "assert num_in_nodes" }

(* a forward stopped on a list of the wrong length after another input     *)
(* group had already been forwarded                                        *)
C15_Witness ==
    /\ pc = "failed"
    /\ err = "assert num_in_nodes"
    /\ Last(calls) = "Fx"
    /\ \E nd \in input_nodes_ : \E i \in Chans(grp[nd].size_) : log.sent[nd][i] # << >>

-----------------------------------------------------------------------------
(* the position of name x in the map order of the names S *)
map_index(S, x) == CHOOSE k \in 1 .. Len(MapOrder(S)) : MapOrder(S)[k] = x

(* every filter and every bias holds log.hyper in the field key, and the   *)
(* serialized bag of every convolution and transfer group reports it       *)
hyper_is(key) ==
    /\ \A e \in DOMAIN egrp :
          egrp[e].type = "conv" =>
             /\ \A k \in DOMAIN egrp[e].filters_ :
                   egrp[e].filters_[k][key] = log.hyper
             /\ key \in DOMAIN serialize[2][map_index(DOMAIN egrp, e)]
             /\ serialize[2][map_index(DOMAIN egrp, e)][key] = log.hyper
    /\ \A n \in DOMAIN grp :
          grp[n].type = "transfer" =>
             /\ \A i \in DOMAIN grp[n].biases_ :
                   grp[n].biases_[i][key] = log.hyper
             /\ key \in DOMAIN serialize[1][map_index(DOMAIN grp, n)]
             /\ serialize[1][map_index(DOMAIN grp, n)][key] = log.hyper

(* the weights and momentum states of all filters and biases *)
parameters ==
    [ filters |-> [e \in DOMAIN egrp |->
                     [k \in DOMAIN egrp[e].filters_ |->
                        << egrp[e].filters_[k].W, egrp[e].filters_[k].V >>]],
      biases  |-> [n \in DOMAIN grp |->
                     [i \in DOMAIN grp[n].biases_ |->
                        << grp[n].biases_[i].b, grp[n].biases_[i].v >>]] ]

(* C16: a call of set_eta(x), set_momentum(x) or set_weight_decay(x)       *)
(* leaves every filter of every convolution group and every bias of every  *)
(* transfer group holding x in that hyperparameter, the serialized bags of *)
(* those groups report x, and no weight, bias value or momentum state      *)
(* changes.                                                                *)
C16_SettersBroadcast ==
    [][ /\ calls' = Append(calls, "E") => hyper_is("eta")'
        /\ calls' = Append(calls, "M") => hyper_is("momentum")'
        /\ calls' = Append(calls, "W") => hyper_is("weight_decay")'
        /\ (\E c \in setter_calls : calls' = Append(calls, c))
              => parameters' = parameters ]_vars

(* set_weight_decay was called on a graph with a convolution group and a   *)
(* transfer group whose parameters a backward pass had already updated     *)
C16_Witness ==
    /\ calls # << >>
    /\ Last(calls) = "W"
    /\ log.hyper # DefaultWeightDecay
    /\ \E e \in DOMAIN egrp :
          /\ egrp[e].type = "conv"
          /\ \E k \in DOMAIN egrp[e].filters_ :
                /\ egrp[e].filters_[k].V # 0
                /\ egrp[e].filters_[k].weight_decay = log.hyper
    /\ \E n \in DOMAIN grp :
          /\ grp[n].type = "transfer"
          /\ \E i \in DOMAIN grp[n].biases_ :
                /\ grp[n].biases_[i].v # 0
                /\ grp[n].biases_[i].weight_decay = log.hyper

-----------------------------------------------------------------------------
(* the step about to be taken is the backward of edge id *)
backward_of_edge(id) ==
    /\ pc = "backward"
    /\ stack # << >>
    /\ Top(stack).fn = "dispatch"
    /\ Top(stack).dir = "bwd"
    /\ Top(stack).k <= Len(grp[Top(stack).node].inputs_[Top(stack).n])
    /\ grp[Top(stack).node].inputs_[Top(stack).n][Top(stack).k] = id

(* the step about to be taken hands a gradient to channel i of group n:    *)
(* from the caller's map or from one of the channel's out-edges            *)
gradient_arrives_at(n, i) ==
    \/ /\ pc = "backward"
       /\ stack # << >>
       /\ Top(stack).fn = "backward"
       /\ Top(stack).g <= Len(Top(stack).keys)
       /\ Top(stack).keys[Top(stack).g] = n
       /\ Top(stack).i = i
    \/ \E e \in DOMAIN egrp : \E k \in DOMAIN egrp[e].edges_ :
          /\ backward_of_edge([g |-> e, k |-> k])
          /\ edges_[e].in = n
          /\ egrp[e].edges_[k].in_num = i

(* C17: no step of a forward pass changes a filter (W, V) or a bias        *)
(* (b, v); a filter changes only in the backward step of the convolution   *)
(* edge bound to it, and a bias only in a backward step that hands a       *)
(* gradient to its own transfer channel.                                   *)
C17_ParametersWrittenInBackward ==
    [][ (pc \notin { "add", "create" }) =>
          /\ (pc = "forward" \/ pc' = "forward") => parameters' = parameters
          /\ \A e \in DOMAIN egrp : \A k \in DOMAIN egrp[e].filters_ :
                parameters'.filters[e][k] # parameters.filters[e][k]
                   => /\ egrp[e].type = "conv"
                      /\ backward_of_edge([g |-> e, k |-> k])
          /\ \A n \in DOMAIN grp : \A i \in DOMAIN grp[n].biases_ :
                parameters'.biases[n][i] # parameters.biases[n][i]
                   => /\ grp[n].type = "transfer"
                      /\ gradient_arrives_at(n, i) ]_vars

(* a backward has returned after updating one filter of a group of several *)
(* and a bias                                                              *)
C17_Witness ==
    /\ returned("B")
    /\ \E e \in DOMAIN egrp :
          /\ Cardinality(DOMAIN egrp[e].filters_) > 1
          /\ \A k \in DOMAIN egrp[e].filters_ : log.filter_updates[e][k] = 1
          /\ \E k \in DOMAIN egrp[e].filters_ : egrp[e].filters_[k].V # 0
    /\ \E n \in DOMAIN grp : \E i \in DOMAIN grp[n].biases_ :
          /\ log.bias_updates[n][i] = 1
          /\ grp[n].biases_[i].v # 0

-----------------------------------------------------------------------------
(* channel n of group nd has handed its gradient to all its in-edges and   *)
(* the step about to be taken ends its backward                            *)
backward_dispatch_done(nd, n) ==
    /\ pc = "backward"
    /\ stack # << >>
    /\ Top(stack).fn = "dispatch"
    /\ Top(stack).dir = "bwd"
    /\ Top(stack).node = nd
    /\ Top(stack).n = n
    /\ Top(stack).k > Len(grp[nd].inputs_[n])

(* while a transfer channel dispatches its gradient: the feature map and   *)
(* the gradient buffer are still held, the buffer holds the accumulated    *)
(* arrivals multiplied by the derivative at the feature map, and the bias  *)
(* has been updated once, with the sum of that product                     *)
transfer_dispatch_state ==
    pc = "backward" =>
       \A x \in 1 .. Len(stack) :
          (/\ stack[x].fn = "dispatch"
           /\ stack[x].dir = "bwd"
           /\ grp[stack[x].node].type = "transfer") =>
             LET nd == stack[x].node
                 n == stack[x].n
                 g == grp[nd]
                 arr == log.arrived[nd][n]
                 total == Cube(arr[1].sz, sum_of(arr, Len(arr)))
             IN  /\ g.fs_[n] \in DOMAIN heap
                 /\ g.gs_[n] \in DOMAIN heap
                 /\ heap[g.gs_[n]] = apply_grad(g.func_, total, heap[g.fs_[n]])
                 /\ log.sent[nd][n] = << [cube |-> heap[g.gs_[n]], after |-> Len(arr)] >>
                 /\ log.bias_updates[nd][n] = 1
                 /\ (g.biases_[n].momentum = 0 /\ g.biases_[n].weight_decay = 0)
                       => g.biases_[n].v = 0 - FixMul(g.biases_[n].eta, sum(heap[g.gs_[n]]))

(* during backward a transfer channel gives up its feature map and its     *)
(* gradient buffer only at the end of its own dispatch loop, and until     *)
(* then the feature map is the cube it held before, unmodified             *)
transfer_release_step ==
    (pc = "backward" /\ pc' = "backward") =>
       \A nd \in DOMAIN grp : \A n \in Chans(grp[nd].size_) :
          grp[nd].type = "transfer" =>
             /\ (grp[nd].fs_[n] # Null /\ grp'[nd].fs_[n] = Null)
                   => backward_dispatch_done(nd, n)
             /\ (grp[nd].gs_[n] # Null /\ grp'[nd].gs_[n] = Null)
                   => backward_dispatch_done(nd, n)
             /\ backward_dispatch_done(nd, n)
                   => (grp'[nd].fs_[n] = Null /\ grp'[nd].gs_[n] = Null)
             /\ (grp[nd].fs_[n] # Null /\ grp'[nd].fs_[n] # Null)
                   => /\ grp'[nd].fs_[n] = grp[nd].fs_[n]
                      /\ heap'[grp[nd].fs_[n]] = heap[grp[nd].fs_[n]]

(* C18: in the backward of a transfer channel the accumulated gradient is  *)
(* first multiplied by the derivative at the feature map kept from the     *)
(* forward, then the bias is updated with the sum of that product, then    *)
(* the product is handed to the in-edges, and only after the last in-edge  *)
(* are the feature map and the gradient buffer released; no in-edge is     *)
(* handed a gradient that has not been multiplied.                         *)
C18_TransferBackwardOrder ==
    /\ []transfer_dispatch_state
    /\ [][transfer_release_step]_vars

(* a rectifying transfer channel whose feature map is zero hands a zeroed  *)
(* gradient to its in-edge although a non-zero gradient arrived            *)
C18_Witness ==
    /\ pc = "backward"
    /\ \E nd \in DOMAIN grp : \E id \in conv_edges :
          /\ grp[nd].type = "transfer"
          /\ grp[nd].func_ = "rectify_linear"
          /\ backward_of_edge([g |-> id[1], k |-> id[2]])
          /\ Top(stack).node = nd
          /\ log.arrived[nd][Top(stack).n][1].v # 0
          /\ heap[grp[nd].gs_[Top(stack).n]].v = 0

-----------------------------------------------------------------------------
(* the step about to be taken is the forward of edge id *)
forward_of_edge(id) ==
    /\ pc = "forward"
    /\ stack # << >>
    /\ Top(stack).fn = "dispatch"
    /\ Top(stack).dir = "fwd"
    /\ Top(stack).k <= Len(grp[Top(stack).node].outputs_[Top(stack).n])
    /\ grp[Top(stack).node].outputs_[Top(stack).n][Top(stack).k] = id

(* the cube the dispatching channel hands to its out-edges: the caller's   *)
(* cube on an input group, the channel's feature buffer otherwise          *)
dispatched_cube ==
    IF grp[Top(stack).node].type = "input" THEN Top(stack).f
    ELSE grp[Top(stack).node].fs_[Top(stack).n]

(* what one step does to the last_input of convolution edge id *)
last_input_step(id) ==
    LET li == egrp[id.g].edges_[id.k].last_input
        li2 == egrp'[id.g].edges_[id.k].last_input
    IN  /\ (forward_of_edge(id) /\ pc' # "failed")
              => /\ li2 = dispatched_cube
                 /\ heap'[li2] = heap[dispatched_cube]
        /\ ~forward_of_edge(id) => li2 = li
        /\ (li # Null /\ li2 = li)
              => /\ li \in DOMAIN heap'
                 /\ heap'[li] = heap[li]
        /\ (backward_of_edge(id) /\ li = Null)
              => /\ pc' = "failed"
                 /\ err' = "assert last_input"
                 /\ parameters' = parameters

(* C19: the last_input of a convolution edge is set only by the edge's own *)
(* forward, to the cube it was handed; no step of any node or edge changes *)
(* the contents of that cube or frees it while the edge refers to it; and  *)
(* the backward of a convolution edge without a last_input stops on the    *)
(* assertion without updating a filter.                                    *)
C19_LastInputKept ==
    [][ (pc \notin { "add", "create" }) =>
          \A c \in conv_edges : last_input_step([g |-> c[1], k |-> c[2]]) ]_vars

(* the backward of a convolution edge is about to use the input kept from  *)
(* the forward, after a sibling edge of the same source channel has run    *)
C19_Witness ==
    \E c \in conv_edges :
       /\ backward_of_edge([g |-> c[1], k |-> c[2]])
       /\ egrp[c[1]].edges_[c[2]].last_input \in DOMAIN heap
       /\ Len(grp[edges_[c[1]].in].outputs_[egrp[c[1]].edges_[c[2]].in_num]) > 1

-----------------------------------------------------------------------------
(* C20: in a backward pass a summing or transfer channel with k > 0        *)
(* out-edges starts dispatching only when k gradients have arrived, a      *)
(* channel without out-edges on its first arrival; the gradient it         *)
(* dispatches is the sum of the arrivals (on a transfer node multiplied by *)
(* the derivative, on a summing node unmodified), it dispatches once, and  *)
(* the buffer its in-edges are handed holds that gradient for as long as   *)
(* the dispatch loop runs.                                                 *)
C20_BackwardDispatch ==
    (pc \in { "backward", "ready" } /\ calls # << >> /\ Last(calls) = "B") =>
        /\ \A nd \in computing : \A i \in Chans(grp[nd].size_) :
              /\ Len(log.sent[nd][i]) <= 1
              /\ \A k \in 1 .. Len(log.sent[nd][i]) :
                    LET s == log.sent[nd][i][k]
                        arr == log.arrived[nd][i]
                        total == Cube(arr[1].sz, sum_of(arr, s.after))
                        outs == Len(grp[nd].outputs_[i])
                    IN  /\ s.after = IF outs = 0 THEN 1 ELSE outs
                        /\ \A x \in 1 .. s.after : arr[x].sz = arr[1].sz
                        /\ grp[nd].type = "sum" => s.cube = total
                        /\ grp[nd].type = "transfer" => s.cube.sz = total.sz
        /\ \A x \in 1 .. Len(stack) :
              (stack[x].fn = "dispatch" /\ stack[x].dir = "bwd") =>
                 LET nd == stack[x].node
                     n == stack[x].n
                 IN  /\ grp[nd].gs_[n] \in DOMAIN heap
                     /\ log.sent[nd][n] # << >>
                     /\ heap[grp[nd].gs_[n]] = Last(log.sent[nd][n]).cube

(* a summing channel with several out-edges is handing on the sum of the   *)
(* gradients that arrived from them                                        *)
C20_Witness ==
    /\ pc = "backward"
    /\ stack # << >>
    /\ Top(stack).fn = "dispatch"
    /\ Top(stack).dir = "bwd"
    /\ grp[Top(stack).node].type = "sum"
    /\ Len(grp[Top(stack).node].outputs_[Top(stack).n]) = MaxSize
    /\ Top(stack).k = 1
    /\ Len(log.sent[Top(stack).node][Top(stack).n]) = 1
    /\ Len(log.arrived[Top(stack).node][Top(stack).n]) = MaxSize
    /\ log.arrived[Top(stack).node][Top(stack).n][1].v # 0
    /\ log.arrived[Top(stack).node][Top(stack).n][2].v # 0

-----------------------------------------------------------------------------
(* The feature map of a channel computed from the wiring alone: the in-     *)
(* edges of a channel are taken as a set, so no delivery order enters.      *)

(* the elements of a sequence *)
Range(q) == { q[x] : x \in 1 .. Len(q) }

RECURSIVE order_free_feature(_, _)
RECURSIVE order_free_total(_)

(* what the kernel of edge id makes of the order-free feature map of its    *)
(* source channel                                                           *)
order_free_contribution(id) ==
    LET eg == egrp[id.g]
        f == order_free_feature(edges_[id.g].in, eg.edges_[id.k].in_num)
    IN  IF eg.type = "conv" THEN convolve_sparse(f, eg.filters_[id.k].W, eg.stride)
        ELSE IF eg.type = "max_filter" THEN pooling_filter(f, eg.size_, eg.stride)
        ELSE f

order_free_total(S) ==
    IF S = {} THEN 0
    ELSE LET id == CHOOSE x \in S : TRUE
         IN  order_free_contribution(id).v + order_free_total(S \ {id})

order_free_feature(nd, i) ==
    IF grp[nd].type = "input" THEN log.sent[nd][i][1].cube
    ELSE LET S == Range(grp[nd].inputs_[i])
             total == Cube(order_free_contribution(CHOOSE x \in S : TRUE).sz,
                           order_free_total(S))
         IN  IF grp[nd].type = "transfer"
             THEN apply(grp[nd].func_, total, grp[nd].biases_[i].b)
             ELSE total

(* the last call is a forward with a matching map, running or returned *)
in_forward == calls # << >> /\ Last(calls) = "F" /\ pc \in {"forward", "ready"}

-----------------------------------------------------------------------------
(* construction has succeeded: the constructor has returned *)
constructed == pc \in {"ready", "forward", "backward"} \/ calls # << >>

(* the node groups none of whose channels has an out-edge *)
terminal_groups ==
    { n \in DOMAIN grp : \A i \in Chans(grp[n].size_) : Len(grp[n].outputs_[i]) = 0 }

(* output_nodes_ is the set of groups without out-edges, by the edge groups *)
(* declared and by the channels' out-edge lists                             *)
outputs_are_terminal ==
    constructed =>
        /\ output_nodes_ = { n \in DOMAIN nodes_ : out_edges_of(n) = {} }
        /\ output_nodes_ = terminal_groups

(* output_nodes_ is not written again once init has computed it *)
outputs_computed_once ==
    [][pc # "add" => output_nodes_' = output_nodes_]_vars

(* a forward with a matching map and the backward that follows it, with a   *)
(* gradient for every channel of every output group, pass every check       *)
passes_driven ==
    (calls # << >> /\ Last(calls) \in {"F", "B"} /\ alternating /\ well_formed)
        => pc # "failed"

(* C22: the outputs set is computed once, after every edge group has been   *)
(* added; it is exactly the set of node groups with no out-edges at any     *)
(* channel; and forward and backward can be driven through every member:    *)
(* forward collects a feature map vector of each, backward takes gradients  *)
(* keyed by each.                                                           *)
C22_OutputsDriven ==
    /\ outputs_are_terminal
    /\ passes_driven

-----------------------------------------------------------------------------
(* the transfer channels: the biases of the network *)
transfer_channels ==
    UNION { { << n, i >> : i \in Chans(grp[n].size_) } :
            n \in { x \in DOMAIN grp : grp[x].type = "transfer" } }

-----------------------------------------------------------------------------
(* fsize = outsz + (fov - 1) * stride for node group n *)
size_relation(n) ==
    nodes_[n].fsize = VAdd(outsz, VMul(VSub(nodes_[n].fov, one), nodes_[n].stride))

(* C24: after construction every node group has                             *)
(* fsize = outsz + (fov - 1) * stride component-wise; every input group has *)
(* fsize = outsz + fov - 1; and outsz + fov() - 1, with the fov that        *)
(* network::fov returns, is the fsize of the input group it reads.          *)
C24_InputSizeFromFov ==
    pc = "ready" =>
        /\ \A n \in DOMAIN nodes_ : size_relation(n)
        /\ \A n \in input_nodes_ :
              nodes_[n].fsize = VSub(VAdd(outsz, nodes_[n].fov), one)
        /\ network_fov \in { nodes_[n].fov : n \in input_nodes_ }
        /\ nodes_[Head(MapOrder(input_nodes_))].fsize
              = VSub(VAdd(outsz, network_fov), one)

(* the same for the node groups that an input group reaches *)
size_relation_where_reached ==
    pc = "ready" =>
        /\ \A n \in reached_from(input_nodes_) : size_relation(n)
        /\ \A n \in input_nodes_ :
              nodes_[n].fsize = VSub(VAdd(outsz, nodes_[n].fov), one)
        /\ network_fov \in { nodes_[n].fov : n \in input_nodes_ }
        /\ nodes_[Head(MapOrder(input_nodes_))].fsize
              = VSub(VAdd(outsz, network_fov), one)

-----------------------------------------------------------------------------
(* C25: after construction all channels of one node group have the same     *)
(* number of out-edges and the same number of in-edges, so the group-level  *)
(* test that picked the output groups (no outgoing edge group) agrees with  *)
(* the per-channel test (no out-edge at channel i) of every one of its      *)
(* channels.                                                                *)
C25_ChannelsAlike ==
    constructed =>
        \A n \in DOMAIN grp : \A i \in Chans(grp[n].size_) :
            /\ \A j \in Chans(grp[n].size_) :
                  /\ Len(grp[n].outputs_[i]) = Len(grp[n].outputs_[j])
                  /\ n \notin input_nodes_ =>
                        Len(grp[n].inputs_[i]) = Len(grp[n].inputs_[j])
            /\ (n \in output_nodes_) <=> (Len(grp[n].outputs_[i]) = 0)

(* a group of several channels with several out-edges on each, next to an   *)
(* output group of several channels with several in-edges on each           *)
C25_Witness ==
    /\ pc = "ready"
    /\ \E n \in DOMAIN grp \ input_nodes_ :
         /\ grp[n].size_ >= 2
         /\ n \notin output_nodes_
         /\ Len(grp[n].outputs_[1]) >= 2
         /\ Len(grp[n].inputs_[1]) >= 1
    /\ \E n \in output_nodes_ : grp[n].size_ >= 2 /\ Len(grp[n].inputs_[0]) >= 2

-----------------------------------------------------------------------------
(* what one step does to the filter of convolution edge id and to the       *)
(* gradient the edge sends upstream                                         *)
filter_step(id) ==
    LET eg == egrp[id.g]
        e == eg.edges_[id.k]
        flt == eg.filters_[id.k]
        src == edges_[id.g].in
        g == heap[grp[Top(stack).node].gs_[Top(stack).n]]
        dEdW == convolve_sparse_flipped(heap[e.last_input], g, eg.stride, flt.W.sz)
    IN  /\ (backward_of_edge(id) /\ pc' # "failed") =>
              /\ log.filter_updates[id.g][id.k] = 0
              /\ egrp'[id.g].filters_[id.k] = filter_update(flt, dEdW)
              /\ grp[src].type # "input" =>
                    Last(log'.arrived[src][e.in_num])
                        = convolve_sparse_inverse(g, flt.W, eg.stride)
        /\ ~backward_of_edge(id) =>
              egrp'[id.g].filters_[id.k].W = flt.W

(* C26: the backward of a convolution edge computes the weight gradient and *)
(* the gradient it sends upstream from the weights W it finds, and only     *)
(* then updates the filter; W is not written between the edge's forward and *)
(* this backward, which is the edge's first of the pass, so the upstream    *)
(* gradient is made with the weights the matching forward used.             *)
C26_GradientBeforeUpdate ==
    [][ (pc \in {"ready", "forward", "backward"}) =>
          (\A c \in conv_edges : filter_step([g |-> c[1], k |-> c[2]])) ]_vars

(* a convolution edge has just sent a gradient upstream to a summing or    *)
(* transfer channel, and its update has left weights that would have given *)
(* another gradient                                                        *)
C26_Witness ==
    /\ pc = "backward"
    /\ stack # << >>
    /\ Top(stack).fn = "dispatch"
    /\ Top(stack).dir = "bwd"
    /\ Top(stack).k >= 2
    /\ LET id == grp[Top(stack).node].inputs_[Top(stack).n][Top(stack).k - 1]
           eg == egrp[id.g]
           src == edges_[id.g].in
           n == eg.edges_[id.k].in_num
           g == heap[grp[Top(stack).node].gs_[Top(stack).n]]
       IN  /\ eg.type = "conv"
           /\ grp[src].type # "input"
           /\ log.filter_updates[id.g][id.k] = 1
           /\ log.arrived[src][n] # << >>
           /\ Last(log.arrived[src][n]).v # 0
           /\ Last(log.arrived[src][n])
                 # convolve_sparse_inverse(g, eg.filters_[id.k].W, eg.stride)

=============================================================================
